---- MODULE Spec2Model ----
(***************************************************************************)
(* A model of the esla scripting engine: Lexer -> Parser -> AST ->         *)
(* Interpreter / Environment, with the dynamic Value representation.       *)
(*                                                                         *)
(* Source text is a sequence of one-character strings.  A Value is a       *)
(* record tagged by the active alternative of the std::variant; a          *)
(* std::shared_ptr<Value> that holds no object is the distinct NullPtr.    *)
(* A double is kept as a reduced fraction n/d (d > 0): the sources used    *)
(* below only produce values that the fraction represents exactly or, for  *)
(* an inexact quotient, the fraction stands for the nearest double.        *)
(* Int literals of the scripts are small, so that no int operation leaves  *)
(* the range of int; the texts handed to the lexer alone include digit     *)
(* runs past INT_MAX.                                                      *)
(*                                                                         *)
(* Seven specifications share the state:                                   *)
(*   Spec        the host runs scripts through evaluate, execute and run   *)
(*   SpecBinary  the host binds two operands and evaluates an operator     *)
(*   SpecScope   the host runs the scripts of the scoping suite            *)
(*   SpecSyntax  the host hands a text to the lexer and the parser         *)
(*   SpecHandle  the host registers and uses the ObjectHandle of a Person  *)
(*   SpecBind    the host binds alice and evaluates scripts on her handle  *)
(*   SpecFile    the command-line interpreter runs a script file           *)
(***************************************************************************)
EXTENDS Integers, Sequences, FiniteSets, TLC

\* Bound on the number of top-level calls made by the host in one behaviour.
MaxOps == 2
\* Bound on the nesting depth of CallNode::evaluate (the native stack).
MaxCallDepth == 4

INT_MAX == 2147483647

\* The only element of a one-element set.  Only({e : x \in {v}}) is the
\* value of e with x bound to the value of v: v is evaluated once, however
\* often e uses x.
Only(S) == CHOOSE v \in S : TRUE

(***************************************************************************)
(* State                                                                   *)
(***************************************************************************)
VARIABLES
    stdlib,   \* the C++ runtime of the build: "libstdc++" or "msvc"
    interp,   \* the Interpreter: the heap of frames and function objects,
              \* and the current-environment cursor
    alive,    \* FALSE once the host process has faulted
    last,     \* the host's view of the last top-level call
    log,      \* what the last top-level call did, in order
    ops,      \* number of top-level calls made
    input,    \* the text the host hands to the lexer and the parser
    out,      \* what the last lexer or parser call handed back
    person,   \* the host object behind the native handle
    handle    \* the names registered on the native handle

vars == <<stdlib, interp, alive, last, log, ops, input, out, person, handle>>

\* what() of the std::exception copy made by `throw e;` where e is a
\* const std::exception & bound to a std::runtime_error: the copy has the
\* static type.  libstdc++ and libc++ keep the message in the derived class,
\* the Microsoft runtime keeps it in std::exception itself.
SlicedWhat(w) == IF stdlib = "msvc" THEN w ELSE "std::exception"

(***************************************************************************)
(* Value                                                                   *)
(***************************************************************************)
NullPtr == [t |-> "nullptr"]
NullV == [t |-> "Null"]
BoolV(b) == [t |-> "Bool", b |-> b]
IntV(i) == [t |-> "Int", i |-> i]
StringV(s) == [t |-> "String", s |-> s]
FunctionV(f) == [t |-> "Function", fid |-> f]

RECURSIVE Gcd(_, _)
Gcd(a, b) == IF b = 0 THEN a ELSE Gcd(b, a % b)

Abs(x) == IF x < 0 THEN -x ELSE x

\* the double n/d, reduced; d = 0 stands for an infinity (n # 0) or a NaN
DoubleV(n, d) ==
    LET g == Gcd(Abs(n), Abs(d))
        s == IF d < 0 THEN -1 ELSE 1
    IN  IF d = 0
        THEN [t |-> "Double", n |-> IF n > 0 THEN 1 ELSE IF n < 0 THEN -1 ELSE 0,
              d |-> 0]
        ELSE [t |-> "Double", n |-> s * (n \div g), d |-> s * (d \div g)]

isNull(v) == v.t = "Null"
isBool(v) == v.t = "Bool"
isInt(v) == v.t = "Int"
isDouble(v) == v.t = "Double"
isString(v) == v.t = "String"
isFunction(v) == v.t = "Function"
isNumber(v) == isInt(v) \/ isDouble(v)

\* outcome of an expression that may throw or fault
\*   "value"  a Value was produced
\*   "return" a ReturnValue is propagating
\*   "error"  a std::exception is propagating, what() = what
\*   "crash"  the process faulted (null dereference, native stack exhausted)
OkR(v) == [kind |-> "value", value |-> v, what |-> ""]
ThrowR(w) == [kind |-> "error", value |-> NullPtr, what |-> w]
CrashR == [kind |-> "crash", value |-> NullPtr, what |-> ""]

\* Value::asDouble, as the fraction; the caller has checked convertibility
asDouble(v) ==
    IF isInt(v) THEN DoubleV(v.i, 1)
    ELSE IF isDouble(v) THEN v
    ELSE DoubleV(IF v.b THEN 1 ELSE 0, 1)

\* Value::asDouble throws for every alternative but int, double and bool
asDoubleThrows(v) == ~(isInt(v) \/ isDouble(v) \/ isBool(v))

AddD(a, b) == DoubleV(a.n * b.d + b.n * a.d, a.d * b.d)
SubD(a, b) == DoubleV(a.n * b.d - b.n * a.d, a.d * b.d)
MulD(a, b) == DoubleV(a.n * b.n, a.d * b.d)
DivD(a, b) == DoubleV(a.n * b.d, a.d * b.n)

\* C++ integer division and remainder truncate toward zero
CDiv(a, b) ==
    LET q == Abs(a) \div Abs(b)
    IN  IF (a < 0) = (b < 0) THEN q ELSE -q
CRem(a, b) == a - b * CDiv(a, b)

\* leftVal->asDouble() OP rightVal->asDouble(), left converted first
DoubleArith(l, r, op) ==
    IF asDoubleThrows(l) THEN ThrowR("Cannot convert to number")
    ELSE IF r = NullPtr THEN CrashR
    ELSE IF asDoubleThrows(r) THEN ThrowR("Cannot convert to number")
    ELSE OkR(CASE op = "PLUS" -> AddD(asDouble(l), asDouble(r))
               [] op = "MINUS" -> SubD(asDouble(l), asDouble(r))
               [] op = "MULTIPLY" -> MulD(asDouble(l), asDouble(r))
               [] op = "DIVIDE" -> DivD(asDouble(l), asDouble(r)))

\* case TokenType::PLUS of BinaryNode::evaluate
PlusCase(l, r) ==
    IF l = NullPtr THEN CrashR
    ELSE IF isString(l) /\ r = NullPtr THEN CrashR
    ELSE IF isString(l) /\ isString(r) THEN OkR(StringV(l.s \o r.s))
    ELSE IF ~isNumber(l) /\ r = NullPtr THEN CrashR
    ELSE IF isNumber(l) \/ isNumber(r)
         THEN IF isInt(l) /\ r = NullPtr THEN CrashR
              ELSE IF isInt(l) /\ isInt(r) THEN OkR(IntV(l.i + r.i))
              ELSE DoubleArith(l, r, "PLUS")
    ELSE ThrowR("Operands must be numbers or strings.")

\* the guard with the mutation "|| in place of &&"
BothNumbersEither(l, r) ==
    IF l = NullPtr THEN "crash"
    ELSE IF isNumber(l) THEN "yes"
    ELSE IF r = NullPtr THEN "crash"
    ELSE IF isNumber(r) THEN "yes" ELSE "no"

\* the guard leftVal->isNumber() && rightVal->isNumber(): "crash" when a
\* null pointer is dereferenced, else the truth value
BothNumbers(l, r) ==
    IF l = NullPtr THEN "crash"
    ELSE IF ~isNumber(l) THEN "no"
    ELSE IF r = NullPtr THEN "crash"
    ELSE IF isNumber(r) THEN "yes" ELSE "no"

\* case TokenType::MINUS
MinusCase(l, r) ==
    LET g == BothNumbers(l, r)
    IN  IF g = "crash" THEN CrashR
        ELSE IF g = "no" THEN ThrowR("Operands must be numbers.")
        ELSE IF isInt(l) /\ isInt(r) THEN OkR(IntV(l.i - r.i))
        ELSE DoubleArith(l, r, "MINUS")

\* case TokenType::MULTIPLY
MultiplyCase(l, r) ==
    LET g == BothNumbers(l, r)
    IN  IF g = "crash" THEN CrashR
        ELSE IF g = "no" THEN ThrowR("Operands must be numbers.")
        ELSE IF isInt(l) /\ isInt(r) THEN OkR(IntV(l.i * r.i))
        ELSE DoubleArith(l, r, "MULTIPLY")

\* case TokenType::DIVIDE, with the mutation "int / int always stays int"
DivideCaseTruncating(l, r) ==
    LET g == BothNumbers(l, r)
    IN  IF g = "crash" THEN CrashR
        ELSE IF g = "no" THEN ThrowR("Operands must be numbers.")
        ELSE IF (isInt(r) /\ r.i = 0) \/ (isDouble(r) /\ r.n = 0)
             THEN ThrowR("Division by zero.")
        ELSE IF isInt(l) /\ isInt(r) THEN OkR(IntV(CDiv(l.i, r.i)))
        ELSE DoubleArith(l, r, "DIVIDE")

\* case TokenType::DIVIDE
DivideCase(l, r) ==
    LET g == BothNumbers(l, r)
    IN  IF g = "crash" THEN CrashR
        ELSE IF g = "no" THEN ThrowR("Operands must be numbers.")
        ELSE IF (isInt(r) /\ r.i = 0) \/ (isDouble(r) /\ r.n = 0)
             THEN ThrowR("Division by zero.")
        ELSE IF isInt(l) /\ isInt(r) /\ CRem(l.i, r.i) = 0
             THEN OkR(IntV(CDiv(l.i, r.i)))
        ELSE DoubleArith(l, r, "DIVIDE")

\* the switch (op.type) of BinaryNode::evaluate
BinarySwitch(op, l, r) ==
    CASE op = "PLUS" -> PlusCase(l, r)
      [] op = "MINUS" -> MinusCase(l, r)
      [] op = "MULTIPLY" -> MultiplyCase(l, r)
      [] op = "DIVIDE" -> DivideCase(l, r)
      [] OTHER -> ThrowR("Unknown operator.")

(***************************************************************************)
(* AST nodes                                                               *)
(***************************************************************************)
NoNode == [node |-> "null"]
LiteralNode(v) == [node |-> "Literal", value |-> v]
VariableNode(name) == [node |-> "Variable", name |-> name]
BinaryNode(l, op, r) == [node |-> "Binary", left |-> l, op |-> op, right |-> r]
AssignNode(name, v) == [node |-> "Assign", name |-> name, value |-> v]
FunctionNode(name, params, body) ==
    [node |-> "Function", name |-> name, parameters |-> params, body |-> body]
CallNode(callee, args) == [node |-> "Call", callee |-> callee, arguments |-> args]
ReturnNode(v) == [node |-> "Return", value |-> v]
Block(stmts) == [node |-> "Block", statements |-> stmts]
ExpressionStmt(e) == [node |-> "ExpressionStmt", expression |-> e]

(***************************************************************************)
(* Environment: the heap of scope frames.  envs[e] is the frame with       *)
(* address e; enclosing = 0 is the null pointer.  The frame created by     *)
(* Interpreter::Interpreter() has address Globals.                         *)
(***************************************************************************)
Globals == 1

NoValues == [n \in {} |-> NullPtr]

\* Environment::Environment() / Environment::Environment(enclosing).
\* lexical is a history field the code does not have: the scope the frame
\* was created for (the cursor for a block, the closure of the callee for a
\* call); nothing reads it but the properties.
NewEnvironment(enclosing, lexical) ==
    [values |-> NoValues, enclosing |-> enclosing, lexical |-> lexical]

\* values[name] = value
MapPut(values, name, value) ==
    [n \in DOMAIN values \cup {name} |-> IF n = name THEN value ELSE values[n]]

\* Environment::define
Environment_define(envs, e, name, value) ==
    [envs EXCEPT ![e].values = MapPut(envs[e].values, name, value)]

\* Environment::get: the frame that resolves name, 0 when the walk runs off
\* the chain (the code then throws)
RECURSIVE Resolve(_, _, _)
Resolve(envs, e, name) ==
    IF name \in DOMAIN envs[e].values THEN e
    ELSE IF envs[e].enclosing # 0 THEN Resolve(envs, envs[e].enclosing, name)
    ELSE 0

Environment_get(envs, e, name) ==
    LET f == Resolve(envs, e, name)
    IN  IF f = 0 THEN [found |-> FALSE, env |-> 0, value |-> NullPtr]
        ELSE [found |-> TRUE, env |-> f, value |-> envs[f].values[name]]

\* Environment::assign with the mutation "a name found in an enclosing frame
\* is written in the frame the walk started from"
Environment_assignHere(envs, e, name, value) ==
    LET f == Resolve(envs, e, name)
    IN  IF f = 0 THEN [ok |-> FALSE, env |-> 0, envs |-> envs]
        ELSE [ok |-> TRUE, env |-> e,
              envs |-> Environment_define(envs, e, name, value)]

\* Environment::assign: writes the nearest frame that defines name; ok is
\* FALSE when it throws "Undefined variable"
Environment_assign(envs, e, name, value) ==
    LET f == Resolve(envs, e, name)
    IN  IF f = 0 THEN [ok |-> FALSE, env |-> 0, envs |-> envs]
        ELSE [ok |-> TRUE, env |-> f,
              envs |-> [envs EXCEPT ![f].values[name] = value]]

(***************************************************************************)
(* Lexer.  start and current count characters as in the code (0-based);    *)
(* the character at C++ index i is source[i + 1].                          *)
(***************************************************************************)
Digits == {"0", "1", "2", "3", "4", "5", "6", "7", "8", "9"}
Letters ==
    {"a", "b", "c", "d", "e", "f", "g", "h", "i", "j", "k", "l", "m",
     "n", "o", "p", "q", "r", "s", "t", "u", "v", "w", "x", "y", "z",
     "A", "B", "C", "D", "E", "F", "G", "H", "I", "J", "K", "L", "M",
     "N", "O", "P", "Q", "R", "S", "T", "U", "V", "W", "X", "Y", "Z"}

DigitValue(c) ==
    CASE c = "0" -> 0 [] c = "1" -> 1 [] c = "2" -> 2 [] c = "3" -> 3
      [] c = "4" -> 4 [] c = "5" -> 5 [] c = "6" -> 6 [] c = "7" -> 7
      [] c = "8" -> 8 [] c = "9" -> 9

\* Token::Token
Token(type, lexeme, literal) ==
    [type |-> type, lexeme |-> lexeme, literal |-> literal]

\* source.substr(from, count) as a string
RECURSIVE Substr(_, _, _)
Substr(source, from, count) ==
    IF count = 0 THEN ""
    ELSE source[from + 1] \o Substr(source, from + 1, count - 1)

\* Lexer::isAtEnd
Lexer_isAtEnd(L) == L.current >= Len(L.source)

\* Lexer::peek; "\0" is written NUL
Lexer_peek(L) == IF Lexer_isAtEnd(L) THEN "NUL" ELSE L.source[L.current + 1]

\* Lexer::peekNext
Lexer_peekNext(L) ==
    IF L.current + 1 >= Len(L.source) THEN "NUL" ELSE L.source[L.current + 2]

\* Lexer::match: the lexer after the call and whether it matched
Lexer_match(L, expected) ==
    IF Lexer_isAtEnd(L) THEN FALSE
    ELSE L.source[L.current + 1] = expected

Advanced(L) == [L EXCEPT !.current = L.current + 1]

\* Lexer::addToken
Lexer_addToken(L, type, literal) ==
    [L EXCEPT !.tokens = Append(L.tokens,
        Token(type, Substr(L.source, L.start, L.current - L.start), literal))]

Diagnosed(L, msg) == [L EXCEPT !.diag = Append(L.diag, msg)]

\* while (std::isdigit(peek())) advance();
RECURSIVE SkipDigits(_)
SkipDigits(L) ==
    IF Lexer_peek(L) \in Digits THEN SkipDigits(Advanced(L)) ELSE L

\* std::stoi on a run of digits source[from+1 .. from+count]: the value, or
\* -1 when it exceeds INT_MAX (std::out_of_range is thrown)
RECURSIVE Stoi(_, _, _, _)
Stoi(source, from, count, acc) ==
    IF count = 0 THEN acc
    ELSE LET d == DigitValue(source[from + 1])
         IN  IF acc > (INT_MAX - d) \div 10 THEN -1
             ELSE Stoi(source, from + 1, count - 1, acc * 10 + d)

RECURSIVE Pow10(_)
Pow10(k) == IF k = 0 THEN 1 ELSE 10 * Pow10(k - 1)

\* what() of the std::out_of_range thrown by std::stoi
StoiWhat == IF stdlib = "msvc" THEN "stoi argument out of range" ELSE "stoi"

\* std::stod of a literal with more than 9 digits, which the fractions of
\* this model do not hold: the double is kept as its digits
LongDoubleV(text) == [t |-> "Double", text |-> text]

\* Lexer::number
Lexer_number(L) ==
    LET L1 == SkipDigits(L)
    IN  IF Lexer_peek(L1) = "." /\ Lexer_peekNext(L1) \in Digits
        THEN LET L2 == SkipDigits(Advanced(L1))
                 intDigits == L1.current - L1.start
                 fracDigits == L2.current - L1.current - 1
                 value ==
                     IF intDigits + fracDigits <= 9
                     THEN DoubleV(
                            Stoi(L.source, L.start, intDigits, 0)
                                * Pow10(fracDigits)
                              + Stoi(L.source, L1.current + 1, fracDigits, 0),
                            Pow10(fracDigits))
                     ELSE LongDoubleV(Substr(L.source, L.start,
                                             L2.current - L.start))
             IN  Lexer_addToken(L2, "NUMBER", value)
        ELSE LET value == Stoi(L.source, L.start, L1.current - L1.start, 0)
             IN  IF value = -1 THEN [L1 EXCEPT !.thrown = StoiWhat]
                 ELSE Lexer_addToken(L1, "NUMBER", IntV(value))

\* while (peek() != '\'' && !isAtEnd()) advance();
RECURSIVE SkipToQuote(_)
SkipToQuote(L) ==
    IF Lexer_peek(L) # "'" /\ ~Lexer_isAtEnd(L) THEN SkipToQuote(Advanced(L))
    ELSE L

\* Lexer::string
Lexer_string(L) ==
    LET L1 == SkipToQuote(L)
    IN  IF Lexer_isAtEnd(L1) THEN Diagnosed(L1, "Unterminated string.")
        ELSE LET L2 == Advanced(L1)
                 value == Substr(L.source, L.start + 1,
                                 L2.current - L.start - 2)
             IN  Lexer_addToken(L2, "STRING", StringV(value))

\* while (std::isalnum(peek()) || peek() == '_') advance();
RECURSIVE SkipIdentifier(_)
SkipIdentifier(L) ==
    IF Lexer_peek(L) \in Letters \cup Digits \cup {"_"}
    THEN SkipIdentifier(Advanced(L)) ELSE L

\* Lexer::identifier
Lexer_identifier(L) ==
    LET L1 == SkipIdentifier(L)
        text == Substr(L.source, L.start, L1.current - L.start)
    IN  CASE text = "true" -> Lexer_addToken(L1, "NUMBER", BoolV(TRUE))
          [] text = "false" -> Lexer_addToken(L1, "NUMBER", BoolV(FALSE))
          [] text = "function" -> Lexer_addToken(L1, "FUNCTION", NullPtr)
          [] text = "return" -> Lexer_addToken(L1, "RETURN", NullPtr)
          [] text = "if" -> Lexer_addToken(L1, "IF", NullPtr)
          [] text = "else" -> Lexer_addToken(L1, "ELSE", NullPtr)
          [] text = "while" -> Lexer_addToken(L1, "WHILE", NullPtr)
          [] text = "for" -> Lexer_addToken(L1, "FOR", NullPtr)
          [] OTHER -> Lexer_addToken(L1, "IDENTIFIER", NullPtr)

\* while (peek() != '\n' && !isAtEnd()) advance();
RECURSIVE SkipComment(_)
SkipComment(L) ==
    IF Lexer_peek(L) # "\n" /\ ~Lexer_isAtEnd(L) THEN SkipComment(Advanced(L))
    ELSE L

\* Lexer::scanToken
Lexer_scanToken(L0) ==
    LET c == L0.source[L0.current + 1]
        L == Advanced(L0)
        Two(second, type2, type1) ==
            IF Lexer_match(L, second)
            THEN Lexer_addToken(Advanced(L), type2, NullPtr)
            ELSE Lexer_addToken(L, type1, NullPtr)
    IN  CASE c = "=" ->
               IF Lexer_match(L, "=")
               THEN Lexer_addToken(Advanced(L), "EQUAL_EQUAL", NullPtr)
               ELSE Two(">", "GREATER_EQUAL", "EQUALS")
          [] c = "<" -> Two("=", "LESS_EQUAL", "LESS")
          [] c = ">" -> Two("=", "GREATER_EQUAL", "GREATER")
          [] c = "!" ->
               IF Lexer_match(L, "=")
               THEN Lexer_addToken(Advanced(L), "NOT_EQUAL", NullPtr)
               ELSE Diagnosed(L, "Unexpected character: !")
          [] c = "+" -> Lexer_addToken(L, "PLUS", NullPtr)
          [] c = "-" -> Lexer_addToken(L, "MINUS", NullPtr)
          [] c = "*" -> Lexer_addToken(L, "MULTIPLY", NullPtr)
          [] c = "/" ->
               IF Lexer_match(L, "/") THEN SkipComment(Advanced(L))
               ELSE Lexer_addToken(L, "DIVIDE", NullPtr)
          [] c = "(" -> Lexer_addToken(L, "LPAREN", NullPtr)
          [] c = ")" -> Lexer_addToken(L, "RPAREN", NullPtr)
          [] c = "{" -> Lexer_addToken(L, "LBRACE", NullPtr)
          [] c = "}" -> Lexer_addToken(L, "RBRACE", NullPtr)
          [] c = "," -> Lexer_addToken(L, "COMMA", NullPtr)
          [] c = ";" -> Lexer_addToken(L, "SEMICOLON", NullPtr)
          [] c \in {" ", "\r", "\t", "\n"} -> L
          [] c = "'" -> Lexer_string(L)
          [] c = "." -> Lexer_addToken(L, "DOT", NullPtr)
          [] OTHER ->
               IF c \in Digits THEN Lexer_number(L)
               ELSE IF c \in Letters \cup {"_"} THEN Lexer_identifier(L)
               ELSE Diagnosed(L, "Unexpected character: " \o c)

\* the while loop of Lexer::scanTokens; it ends early when scanToken throws
RECURSIVE ScanLoop(_)
ScanLoop(L) ==
    IF L.thrown # "" \/ Lexer_isAtEnd(L) THEN L
    ELSE ScanLoop(Lexer_scanToken([L EXCEPT !.start = L.current]))

\* Lexer::Lexer
Lexer(source) ==
    [source |-> source, start |-> 0, current |-> 0, tokens |-> <<>>,
     diag |-> <<>>, thrown |-> ""]

\* Lexer::scanTokens: thrown # "" when an exception leaves it, else tokens
\* is the returned vector
Lexer_scanTokens(source) ==
    LET L == ScanLoop(Lexer(source))
    IN  IF L.thrown # "" THEN L
        ELSE [L EXCEPT !.tokens = Append(L.tokens, Token("EOF_TOKEN", "", NullPtr))]

(***************************************************************************)
(* Parser.  cur is Parser::current (0-based); a production yields the node *)
(* and the position after it, or the message of the exception it throws.   *)
(***************************************************************************)
MaxParameters == 255

Parsed(node, cur) == [ok |-> TRUE, node |-> node, cur |-> cur, what |-> ""]
ParseThrow(w) == [ok |-> FALSE, node |-> NoNode, cur |-> 0, what |-> w]

\* Parser::peek
Parser_peek(tokens, cur) == tokens[cur + 1]
\* Parser::isAtEnd
Parser_isAtEnd(tokens, cur) == Parser_peek(tokens, cur).type = "EOF_TOKEN"
\* Parser::check
Parser_check(tokens, cur, type) ==
    IF Parser_isAtEnd(tokens, cur) THEN FALSE
    ELSE Parser_peek(tokens, cur).type = type
\* Parser::match on a list of types; a match advances by one token
Parser_match(tokens, cur, types) == \E type \in types : Parser_check(tokens, cur, type)

RECURSIVE Parser_statement(_, _)
RECURSIVE Parser_expression(_, _)
RECURSIVE BlockLoop(_, _, _)
RECURSIVE ParameterLoop(_, _, _)
RECURSIVE ArgumentLoop(_, _, _)
RECURSIVE AdditionLoop(_, _, _)
RECURSIVE MultiplicationLoop(_, _, _)
RECURSIVE CallLoop(_, _, _)
RECURSIVE Parser_primary(_, _)

\* Parser::blockStatement, after the statements are collected
Parser_blockStatement(tokens, cur) == BlockLoop(tokens, cur, <<>>)

\* the while loop of Parser::blockStatement and the consume that follows
BlockLoop(tokens, cur, statements) ==
    IF ~Parser_check(tokens, cur, "RBRACE") /\ ~Parser_isAtEnd(tokens, cur)
    THEN Only({ IF ~s.ok THEN s
                ELSE BlockLoop(tokens, s.cur, Append(statements, s.node))
                : s \in {Parser_statement(tokens, cur)} })
    ELSE IF Parser_check(tokens, cur, "RBRACE")
         THEN Parsed(Block(statements), cur + 1)
         ELSE ParseThrow("Expected '}' after block.")

\* the do-while loop of Parser::functionDeclaration; cur is at a parameter
ParameterLoop(tokens, cur, parameters) ==
    IF Len(parameters) >= MaxParameters
    THEN ParseThrow("Cannot have more than 255 parameters.")
    ELSE IF ~Parser_check(tokens, cur, "IDENTIFIER")
    THEN ParseThrow("Expected parameter name.")
    ELSE LET ps == Append(parameters, Parser_peek(tokens, cur).lexeme)
         IN  IF Parser_check(tokens, cur + 1, "COMMA")
             THEN ParameterLoop(tokens, cur + 2, ps)
             ELSE [ok |-> TRUE, node |-> NoNode, cur |-> cur + 1, what |-> "",
                   parameters |-> ps]

\* Parser::functionDeclaration
Parser_functionDeclaration(tokens, cur) ==
    IF ~Parser_check(tokens, cur, "IDENTIFIER")
    THEN ParseThrow("Expected function name.")
    ELSE IF ~Parser_check(tokens, cur + 1, "LPAREN")
    THEN ParseThrow("Expected '(' after function name.")
    ELSE Only({
        IF ~ps.ok THEN ps
        ELSE IF ~Parser_check(tokens, ps.cur, "RPAREN")
        THEN ParseThrow("Expected ')' after parameters.")
        ELSE IF ~Parser_check(tokens, ps.cur + 1, "LBRACE")
        THEN ParseThrow("Expected '{' before function body.")
        ELSE Only({ IF ~body.ok THEN body
                    ELSE Parsed(FunctionNode(Parser_peek(tokens, cur).lexeme,
                                             ps.parameters, body.node),
                                body.cur)
                    : body \in {Parser_blockStatement(tokens, ps.cur + 2)} })
        : ps \in {IF ~Parser_check(tokens, cur + 2, "RPAREN")
                  THEN ParameterLoop(tokens, cur + 2, <<>>)
                  ELSE [ok |-> TRUE, node |-> NoNode, cur |-> cur + 2,
                        what |-> "", parameters |-> <<>>]} })

\* the optional semicolon: match(TokenType::SEMICOLON)
SkipSemicolon(tokens, cur) ==
    IF Parser_check(tokens, cur, "SEMICOLON") THEN cur + 1 ELSE cur

\* Parser::returnStatement
Parser_returnStatement(tokens, cur) ==
    IF ~Parser_check(tokens, cur, "SEMICOLON") /\ ~Parser_check(tokens, cur, "RBRACE")
    THEN Only({ IF ~value.ok THEN value
                ELSE Parsed(ReturnNode(value.node),
                            SkipSemicolon(tokens, value.cur))
                : value \in {Parser_expression(tokens, cur)} })
    ELSE Parsed(ReturnNode(NoNode), SkipSemicolon(tokens, cur))

\* Parser::expressionStatement
Parser_expressionStatement(tokens, cur) ==
    Only({ IF ~expr.ok THEN expr
           ELSE Parsed(ExpressionStmt(expr.node), SkipSemicolon(tokens, expr.cur))
           : expr \in {Parser_expression(tokens, cur)} })

\* Parser::statement
Parser_statement(tokens, cur) ==
    IF Parser_check(tokens, cur, "FUNCTION")
    THEN Parser_functionDeclaration(tokens, cur + 1)
    ELSE IF Parser_check(tokens, cur, "RETURN")
    THEN Parser_returnStatement(tokens, cur + 1)
    ELSE IF Parser_check(tokens, cur, "LBRACE")
    THEN Parser_blockStatement(tokens, cur + 1)
    ELSE Parser_expressionStatement(tokens, cur)

\* Parser::primary
Parser_primary(tokens, cur) ==
    IF Parser_match(tokens, cur, {"NUMBER", "STRING"})
    THEN Parsed(LiteralNode(Parser_peek(tokens, cur).literal), cur + 1)
    ELSE IF Parser_check(tokens, cur, "IDENTIFIER")
    THEN Parsed(VariableNode(Parser_peek(tokens, cur).lexeme), cur + 1)
    ELSE IF Parser_check(tokens, cur, "LPAREN")
    THEN Only({ IF ~expr.ok THEN expr
                ELSE IF Parser_check(tokens, expr.cur, "RPAREN")
                THEN Parsed(expr.node, expr.cur + 1)
                ELSE ParseThrow("Expected ')' after expression.")
                : expr \in {Parser_expression(tokens, cur + 1)} })
    ELSE ParseThrow("Expected expression.")

\* the do-while loop of Parser::finishCall; cur is at an argument
ArgumentLoop(tokens, cur, arguments) ==
    IF Len(arguments) >= MaxParameters
    THEN ParseThrow("Cannot have more than 255 arguments.")
    ELSE Only({ IF ~a.ok THEN a
                ELSE IF Parser_check(tokens, a.cur, "COMMA")
                THEN ArgumentLoop(tokens, a.cur + 1, Append(arguments, a.node))
                ELSE [ok |-> TRUE, node |-> NoNode, cur |-> a.cur, what |-> "",
                      arguments |-> Append(arguments, a.node)]
                : a \in {Parser_expression(tokens, cur)} })

\* Parser::finishCall
Parser_finishCall(tokens, cur, callee) ==
    Only({ IF ~as.ok THEN as
           ELSE IF Parser_check(tokens, as.cur, "RPAREN")
           THEN Parsed(CallNode(callee, as.arguments), as.cur + 1)
           ELSE ParseThrow("Expected ')' after arguments.")
           : as \in {IF ~Parser_check(tokens, cur, "RPAREN")
                     THEN ArgumentLoop(tokens, cur, <<>>)
                     ELSE [ok |-> TRUE, node |-> NoNode, cur |-> cur,
                           what |-> "", arguments |-> <<>>]} })

\* the while (true) loop of Parser::call
CallLoop(tokens, cur, expr) ==
    IF Parser_check(tokens, cur, "LPAREN")
    THEN Only({ IF ~c.ok THEN c ELSE CallLoop(tokens, c.cur, c.node)
                : c \in {Parser_finishCall(tokens, cur + 1, expr)} })
    ELSE Parsed(expr, cur)

\* Parser::call
Parser_call(tokens, cur) ==
    Only({ IF ~expr.ok THEN expr ELSE CallLoop(tokens, expr.cur, expr.node)
           : expr \in {Parser_primary(tokens, cur)} })

\* the while loop of Parser::multiplication
MultiplicationLoop(tokens, cur, expr) ==
    IF Parser_match(tokens, cur, {"MULTIPLY", "DIVIDE"})
    THEN Only({ IF ~right.ok THEN right
                ELSE MultiplicationLoop(
                        tokens, right.cur,
                        BinaryNode(expr, Parser_peek(tokens, cur).type,
                                   right.node))
                : right \in {Parser_call(tokens, cur + 1)} })
    ELSE Parsed(expr, cur)

\* Parser::multiplication
Parser_multiplication(tokens, cur) ==
    Only({ IF ~expr.ok THEN expr
           ELSE MultiplicationLoop(tokens, expr.cur, expr.node)
           : expr \in {Parser_call(tokens, cur)} })

\* the while loop of Parser::addition with the mutation "the right operand
\* of + and - is a call expression, not a multiplication"
AdditionLoopNoPrecedence(tokens, cur, expr) ==
    IF Parser_match(tokens, cur, {"PLUS", "MINUS"})
    THEN Only({ IF ~right.ok THEN right
                ELSE AdditionLoop(
                        tokens, right.cur,
                        BinaryNode(expr, Parser_peek(tokens, cur).type,
                                   right.node))
                : right \in {Parser_call(tokens, cur + 1)} })
    ELSE Parsed(expr, cur)

\* the while loop of Parser::addition
AdditionLoop(tokens, cur, expr) ==
    IF Parser_match(tokens, cur, {"PLUS", "MINUS"})
    THEN Only({ IF ~right.ok THEN right
                ELSE AdditionLoop(
                        tokens, right.cur,
                        BinaryNode(expr, Parser_peek(tokens, cur).type,
                                   right.node))
                : right \in {Parser_multiplication(tokens, cur + 1)} })
    ELSE Parsed(expr, cur)

\* Parser::addition
Parser_addition(tokens, cur) ==
    Only({ IF ~expr.ok THEN expr ELSE AdditionLoop(tokens, expr.cur, expr.node)
           : expr \in {Parser_multiplication(tokens, cur)} })

\* Parser::assignment with the mutation "the assigned value is an addition,
\* not an expression": a = b = e stops after a = b
Parser_assignmentOnce(tokens, cur) ==
    Only({ IF ~expr.ok THEN expr
           ELSE IF Parser_check(tokens, expr.cur, "EQUALS")
           THEN Only({ IF ~value.ok THEN value
                       ELSE IF expr.node.node = "Variable"
                       THEN Parsed(AssignNode(expr.node.name, value.node),
                                   value.cur)
                       ELSE ParseThrow("Invalid assignment target.")
                       : value \in {Parser_addition(tokens, expr.cur + 1)} })
           ELSE expr
           : expr \in {Parser_addition(tokens, cur)} })

\* Parser::assignment
Parser_assignment(tokens, cur) ==
    Only({ IF ~expr.ok THEN expr
           ELSE IF Parser_check(tokens, expr.cur, "EQUALS")
           THEN Only({ IF ~value.ok THEN value
                       ELSE IF expr.node.node = "Variable"
                       THEN Parsed(AssignNode(expr.node.name, value.node),
                                   value.cur)
                       ELSE ParseThrow("Invalid assignment target.")
                       : value \in {Parser_expression(tokens, expr.cur + 1)} })
           ELSE expr
           : expr \in {Parser_addition(tokens, cur)} })

\* Parser::expression
Parser_expression(tokens, cur) == Parser_assignment(tokens, cur)

\* Parser::parse: the statement, or NoNode (nullptr) after a parse error
Parser_parse(tokens) ==
    Only({ IF s.ok THEN s.node ELSE NoNode : s \in {Parser_statement(tokens, 0)} })

RECURSIVE ParseAllLoop(_, _, _)
\* the while loop of Parser::parseAll with the mutation "after a parse
\* error the statements parsed so far are returned"
ParseAllLoopPartial(tokens, cur, statements) ==
    IF ~Parser_isAtEnd(tokens, cur)
    THEN Only({ IF ~s.ok THEN statements
                ELSE ParseAllLoop(tokens, s.cur, Append(statements, s.node))
                : s \in {Parser_statement(tokens, cur)} })
    ELSE statements

\* the while loop of Parser::parseAll
ParseAllLoop(tokens, cur, statements) ==
    IF ~Parser_isAtEnd(tokens, cur)
    THEN Only({ IF ~s.ok THEN <<>>
                ELSE ParseAllLoop(tokens, s.cur, Append(statements, s.node))
                : s \in {Parser_statement(tokens, cur)} })
    ELSE statements

\* Parser::parseAll
Parser_parseAll(tokens) == ParseAllLoop(tokens, 0, <<>>)

\* what Parser::parse writes to std::cerr
Parser_parseCerr(tokens) ==
    Only({ IF s.ok THEN <<>> ELSE <<"Parse error: " \o s.what>>
           : s \in {Parser_statement(tokens, 0)} })

\* the message of the exception that ends the loop of Parser::parseAll, ""
\* when the loop reaches the end of the tokens
RECURSIVE ParseAllWhat(_, _)
ParseAllWhat(tokens, cur) ==
    IF ~Parser_isAtEnd(tokens, cur)
    THEN Only({ IF ~s.ok THEN s.what ELSE ParseAllWhat(tokens, s.cur)
                : s \in {Parser_statement(tokens, cur)} })
    ELSE ""

\* what Parser::parseAll writes to std::cerr
Parser_parseAllCerr(tokens) ==
    Only({ IF what = "" THEN <<>> ELSE <<"Parse error: " \o what>>
           : what \in {ParseAllWhat(tokens, 0)} })

(***************************************************************************)
(* Evaluation.  st is the interpreter during one top-level call:           *)
(*   envs, funs   the heap: frames and FunctionObjects                     *)
(*   environment  Interpreter::environment, the cursor                     *)
(*   log          the events so far                                        *)
(*   ncalls       number of CallNode::evaluate activations so far          *)
(* depth is the number of call activations the native stack still takes.   *)
(* A result is an outcome (kind, value, what) with the state st it leaves. *)
(***************************************************************************)
With(r, st) == [kind |-> r.kind, value |-> r.value, what |-> r.what, st |-> st]
Logged(st, e) == [st EXCEPT !.log = Append(st.log, e)]
\* throw std::runtime_error(w)
Throw(w, st) == With(ThrowR(w), Logged(st, [ev |-> "throw", what |-> w]))

\* Interpreter::lookUpVariable
Interpreter_lookUpVariable(st, name) ==
    LET g == Environment_get(st.envs, st.environment, name)
        st1 == Logged(st, [ev |-> "lookup", name |-> name,
                           from |-> st.environment, found |-> g.env,
                           value |-> g.value])
    IN  IF g.found THEN With(OkR(g.value), st1)
        ELSE Throw("Undefined variable '" \o name \o "'.", st1)

\* Interpreter::assign.  environment->assign(name, std::move(value)) moves
\* value into the callee's parameter before the callee runs, so the value
\* left for the catch clause is the moved-from (empty) pointer.
Interpreter_assign(st, name, value) ==
    LET a == Environment_assign(st.envs, st.environment, name, value)
        movedFrom == NullPtr
        envs1 == IF a.ok THEN a.envs
                 ELSE Environment_define(st.envs, Globals, name, movedFrom)
    IN  Logged([st EXCEPT !.envs = envs1],
               [ev |-> "assign", name |-> name, value |-> value,
                from |-> st.environment, caught |-> ~a.ok,
                target |-> IF a.ok THEN a.env ELSE Globals])

\* Interpreter::define
Interpreter_define(st, name, value) ==
    [st EXCEPT !.envs = Environment_define(st.envs, st.environment, name, value)]

RECURSIVE DefineParameters(_, _, _, _, _)
\* the loop of CallNode::evaluate that defines the parameters with the
\* mutation "a parameter is defined in the closure, not in the new frame"
DefineParametersInClosure(st, e, id, parameters, argumentValues) ==
    IF parameters = <<>> THEN st
    ELSE DefineParameters(
            Logged([st EXCEPT !.envs = Environment_define(
                        st.envs, st.envs[e].enclosing, Head(parameters),
                        Head(argumentValues))],
                   [ev |-> "bind", id |-> id, env |-> st.envs[e].enclosing,
                    name |-> Head(parameters), value |-> Head(argumentValues)]),
            e, id, Tail(parameters), Tail(argumentValues))

\* the loop of CallNode::evaluate that defines the parameters
DefineParameters(st, e, id, parameters, argumentValues) ==
    IF parameters = <<>> THEN st
    ELSE DefineParameters(
            Logged([st EXCEPT !.envs = Environment_define(
                        st.envs, e, Head(parameters), Head(argumentValues))],
                   [ev |-> "bind", id |-> id, env |-> e,
                    name |-> Head(parameters), value |-> Head(argumentValues)]),
            e, id, Tail(parameters), Tail(argumentValues))

RECURSIVE Node_evaluate(_, _, _)
RECURSIVE EvaluateArguments(_, _, _, _, _)
RECURSIVE ExecuteStatements(_, _, _, _)

\* Interpreter::evaluate(std::shared_ptr<Node>)
Interpreter_evaluate(node, st, depth) ==
    IF node = NoNode THEN With(OkR(NullV), st)
    ELSE Node_evaluate(node, st, depth)

\* the loop of Interpreter::executeBlock with the mutation "a return does
\* not leave the block": the statements after it run as well
ExecuteStatementsPastReturn(statements, lastValue, st, depth) ==
    IF statements = <<>> THEN With(OkR(lastValue), st)
    ELSE Only({ IF r.kind \in {"value", "return"}
                THEN ExecuteStatements(Tail(statements), r.value, r.st, depth)
                ELSE r
                : r \in {Interpreter_evaluate(
                            Head(statements),
                            Logged(st, [ev |-> "stmt", env |-> st.environment,
                                        node |-> Head(statements).node,
                                        depth |-> depth]),
                            depth)} })

\* the for loop of Interpreter::executeBlock; lastValue is the value of the
\* last statement evaluated
ExecuteStatements(statements, lastValue, st, depth) ==
    IF statements = <<>> THEN With(OkR(lastValue), st)
    ELSE Only({ IF r.kind = "value"
                THEN ExecuteStatements(Tail(statements), r.value, r.st, depth)
                ELSE r
                : r \in {Interpreter_evaluate(
                            Head(statements),
                            Logged(st, [ev |-> "stmt", env |-> st.environment,
                                        node |-> Head(statements).node,
                                        depth |-> depth]),
                            depth)} })

\* the try block of Interpreter::executeBlock with the mutation "the cursor
\* is not moved to environment"
TryStatementsCursorKept(statements, environment, st, depth) ==
    ExecuteStatements(statements, NullV,
        Logged(st, [ev |-> "enter", env |-> environment,
                    previous |-> st.environment]),
        depth)

\* the try block of Interpreter::executeBlock
TryStatements(statements, environment, st, depth) ==
    ExecuteStatements(statements, NullV,
        Logged([st EXCEPT !.environment = environment],
               [ev |-> "enter", env |-> environment,
                previous |-> st.environment]),
        depth)

\* the state in which Interpreter::executeBlock is left with outcome kind
Left(st, environment, kind) ==
    Logged(st, [ev |-> "exit", env |-> environment, kind |-> kind,
                cursor |-> st.environment])

\* Interpreter::executeBlock with the mutation "the cursor is restored on
\* normal completion only"
Interpreter_executeBlockNoRestore(statements, environment, st, depth) ==
    Only({
        LET previous == st.environment
            restored == [r.st EXCEPT !.environment = previous]
        IN  CASE r.kind = "value" -> With(r, Left(restored, environment, r.kind))
              [] r.kind = "return" -> With(r, Left(r.st, environment, r.kind))
              [] r.kind = "error" ->
                   With(ThrowR(SlicedWhat(r.what)),
                        Left(r.st, environment, r.kind))
              [] OTHER -> r
        : r \in {TryStatements(statements, environment, st, depth)} })

\* Interpreter::executeBlock
Interpreter_executeBlock(statements, environment, st, depth) ==
    Only({
        LET previous == st.environment
            restored == [r.st EXCEPT !.environment = previous]
        IN  CASE r.kind = "value" -> With(r, Left(restored, environment, r.kind))
              [] r.kind = "return" -> With(r, Left(restored, environment, r.kind))
              [] r.kind = "error" ->
                   With(ThrowR(SlicedWhat(r.what)),
                        Left(restored, environment, r.kind))
              [] OTHER -> r
        : r \in {TryStatements(statements, environment, st, depth)} })

\* Block::evaluate with the mutation "the statements run in the current
\* environment"
Block_evaluateNoScope(node, st, depth) ==
    Interpreter_executeBlock(node.statements, st.environment, st, depth)

\* Block::evaluate
Block_evaluate(node, st, depth) ==
    LET e == Len(st.envs) + 1
        st1 == [st EXCEPT !.envs = Append(st.envs,
                        NewEnvironment(st.environment, st.environment))]
    IN  Interpreter_executeBlock(node.statements, e, st1, depth)

\* BinaryNode::evaluate with the mutation "the right operand is evaluated
\* before the left one"
BinaryNode_evaluateRightFirst(node, st, depth) ==
    Only({
        IF r.kind # "value" THEN r
        ELSE Only({
            IF l.kind # "value" THEN l
            ELSE Only({
                LET st1 == Logged(l.st,
                                [ev |-> "binary", op |-> node.op,
                                 left |-> l.value, right |-> r.value,
                                 kind |-> o.kind, value |-> o.value,
                                 what |-> o.what])
                IN  IF o.kind = "error" THEN Throw(o.what, st1)
                    ELSE With(o, st1)
                : o \in {BinarySwitch(node.op, l.value, r.value)} })
            : l \in {Node_evaluate(node.left, r.st, depth)} })
        : r \in {Node_evaluate(node.right, st, depth)} })

\* BinaryNode::evaluate
BinaryNode_evaluate(node, st, depth) ==
    Only({
        IF l.kind # "value" THEN l
        ELSE Only({
            IF r.kind # "value" THEN r
            ELSE Only({
                LET st1 == Logged(r.st,
                                [ev |-> "binary", op |-> node.op,
                                 left |-> l.value, right |-> r.value,
                                 kind |-> o.kind, value |-> o.value,
                                 what |-> o.what])
                IN  IF o.kind = "error" THEN Throw(o.what, st1)
                    ELSE With(o, st1)
                : o \in {BinarySwitch(node.op, l.value, r.value)} })
            : r \in {Node_evaluate(node.right, l.st, depth)} })
        : l \in {Node_evaluate(node.left, st, depth)} })

\* AssignNode::evaluate
AssignNode_evaluate(node, st, depth) ==
    Only({ IF val.kind # "value" THEN val
           ELSE With(OkR(val.value),
                     Interpreter_assign(val.st, node.name, val.value))
           : val \in {Node_evaluate(node.value, st, depth)} })

\* FunctionNode::evaluate with the mutation "the closure of a function is
\* the global environment"
FunctionNode_evaluateGlobalClosure(node, st, depth) ==
    LET function == [parameters |-> node.parameters, body |-> node.body,
                     closure |-> Globals]
        f == Len(st.funs) + 1
        st1 == [st EXCEPT !.funs = Append(st.funs, function)]
    IN  With(OkR(NullV),
             Logged(Interpreter_define(st1, node.name, FunctionV(f)),
                    [ev |-> "define", name |-> node.name,
                     env |-> st.environment, value |-> FunctionV(f)]))

\* FunctionNode::evaluate
FunctionNode_evaluate(node, st, depth) ==
    LET function == [parameters |-> node.parameters, body |-> node.body,
                     closure |-> st.environment]
        f == Len(st.funs) + 1
        st1 == [st EXCEPT !.funs = Append(st.funs, function)]
    IN  With(OkR(NullV),
             Logged(Interpreter_define(st1, node.name, FunctionV(f)),
                    [ev |-> "define", name |-> node.name,
                     env |-> st.environment, value |-> FunctionV(f)]))

\* the loop of CallNode::evaluate that evaluates the arguments, left to right
EvaluateArguments(arguments, argumentValues, id, st, depth) ==
    IF arguments = <<>>
    THEN [kind |-> "value", value |-> NullV, what |-> "",
          st |-> Logged(st, [ev |-> "argsdone", id |-> id,
                             got |-> Len(argumentValues)]),
          values |-> argumentValues]
    ELSE Only({ IF r.kind # "value"
                THEN [kind |-> r.kind, value |-> r.value, what |-> r.what,
                      st |-> r.st, values |-> argumentValues]
                ELSE EvaluateArguments(Tail(arguments),
                                       Append(argumentValues, r.value),
                                       id, r.st, depth)
                : r \in {Node_evaluate(
                            Head(arguments),
                            Logged(st, [ev |-> "arg", id |-> id,
                                        index |-> Len(argumentValues) + 1]),
                            depth)} })

\* the call id yields value to its caller
Returned(id, value, st) ==
    With(OkR(value), Logged(st, [ev |-> "result", id |-> id, value |-> value]))

\* the frame of a call with the mutation "the new frame encloses the
\* caller's environment" (dynamic scoping)
CallEnvironmentOfCaller(function, st) ==
    NewEnvironment(st.environment, function.closure)

\* std::make_shared<Environment>(func->closure): the frame of a call
CallEnvironment(function, st) ==
    NewEnvironment(function.closure, function.closure)

\* the second part of CallNode::evaluate with the mutation "surplus
\* arguments are accepted"
CallFunctionAtLeast(function, argumentValues, id, st, depth) ==
    IF Len(argumentValues) < Len(function.parameters)
    THEN Throw("Expected " \o ToString(Len(function.parameters))
               \o " arguments but got "
               \o ToString(Len(argumentValues)) \o ".", st)
    ELSE IF depth = 0 THEN With(CrashR, st)
    ELSE LET environment == Len(st.envs) + 1
             st1 == Logged([st EXCEPT !.envs = Append(st.envs,
                                CallEnvironment(function, st))],
                           [ev |-> "frame", id |-> id, env |-> environment,
                            caller |-> st.environment,
                            closure |-> function.closure,
                            depth |-> depth - 1])
             st2 == DefineParameters(st1, environment, id,
                                     function.parameters, argumentValues)
         IN  Only({ CASE r.kind = "return" -> Returned(id, r.value, r.st)
                      [] r.kind = "value" -> Returned(id, NullV, r.st)
                      [] OTHER -> r
                    : r \in {Interpreter_executeBlock(
                                function.body.statements, environment, st2,
                                depth - 1)} })

\* the part of CallNode::evaluate after the arguments are evaluated: the
\* arity check, the new frame, the parameters, the body.  A call that
\* finds the native stack exhausted faults.
CallFunction(function, argumentValues, id, st, depth) ==
    IF Len(argumentValues) # Len(function.parameters)
    THEN Throw("Expected " \o ToString(Len(function.parameters))
               \o " arguments but got "
               \o ToString(Len(argumentValues)) \o ".", st)
    ELSE IF depth = 0 THEN With(CrashR, st)
    ELSE LET environment == Len(st.envs) + 1
             st1 == Logged([st EXCEPT !.envs = Append(st.envs,
                                CallEnvironment(function, st))],
                           [ev |-> "frame", id |-> id, env |-> environment,
                            caller |-> st.environment,
                            closure |-> function.closure,
                            depth |-> depth - 1])
             st2 == DefineParameters(st1, environment, id,
                                     function.parameters, argumentValues)
         IN  Only({ CASE r.kind = "return" -> Returned(id, r.value, r.st)
                      [] r.kind = "value" -> Returned(id, NullV, r.st)
                      [] OTHER -> r
                    : r \in {Interpreter_executeBlock(
                                function.body.statements, environment, st2,
                                depth - 1)} })

\* CallNode::evaluate with the mutation "the arguments are evaluated before
\* the callee is checked"
CallNode_evaluateArgsFirst(node, st, depth) ==
    Only({
        IF calleeValue.kind # "value" THEN calleeValue
        ELSE Only({
            IF args.kind # "value" THEN With(args, args.st)
            ELSE IF calleeValue.value = NullPtr THEN With(CrashR, args.st)
            ELSE IF ~isFunction(calleeValue.value)
            THEN Throw("Can only call functions.", args.st)
            ELSE CallFunction(args.st.funs[calleeValue.value.fid],
                              args.values, st.ncalls + 1, args.st, depth)
            : args \in {EvaluateArguments(
                            node.arguments, <<>>, st.ncalls + 1,
                            Logged(calleeValue.st,
                                   [ev |-> "callee", id |-> st.ncalls + 1,
                                    value |-> calleeValue.value,
                                    nargs |-> Len(node.arguments)]),
                            depth)} })
        : calleeValue \in {Node_evaluate(
                                node.callee,
                                [st EXCEPT !.ncalls = st.ncalls + 1], depth)} })

\* CallNode::evaluate
CallNode_evaluate(node, st, depth) ==
    Only({
        IF calleeValue.kind # "value" THEN calleeValue
        ELSE LET id == st.ncalls + 1
                 st0 == Logged(calleeValue.st,
                               [ev |-> "callee", id |-> id,
                                value |-> calleeValue.value,
                                nargs |-> Len(node.arguments)])
             IN  IF calleeValue.value = NullPtr THEN With(CrashR, st0)
                 ELSE IF ~isFunction(calleeValue.value)
                 THEN Throw("Can only call functions.", st0)
                 ELSE Only({
                     IF args.kind # "value" THEN With(args, args.st)
                     ELSE CallFunction(args.st.funs[calleeValue.value.fid],
                                       args.values, id, args.st, depth)
                     : args \in {EvaluateArguments(node.arguments, <<>>,
                                                   id, st0, depth)} })
        : calleeValue \in {Node_evaluate(
                                node.callee,
                                [st EXCEPT !.ncalls = st.ncalls + 1], depth)} })

\* throw ReturnValue(returnValue)
ThrowReturnValue(value, st, depth) ==
    [kind |-> "return", value |-> value, what |-> "",
     st |-> Logged(st, [ev |-> "return", value |-> value, depth |-> depth,
                        env |-> st.environment])]

\* ReturnNode::evaluate
ReturnNode_evaluate(node, st, depth) ==
    IF node.value # NoNode
    THEN Only({ IF returnValue.kind # "value" THEN returnValue
                ELSE ThrowReturnValue(returnValue.value, returnValue.st, depth)
                : returnValue \in {Node_evaluate(node.value, st, depth)} })
    ELSE ThrowReturnValue(NullV, st, depth)

\* the virtual Node::evaluate
Node_evaluate(node, st, depth) ==
    CASE node.node = "ExpressionStmt" -> Node_evaluate(node.expression, st, depth)
      [] node.node = "Block" -> Block_evaluate(node, st, depth)
      [] node.node = "Literal" -> With(OkR(node.value), st)
      [] node.node = "Variable" -> Interpreter_lookUpVariable(st, node.name)
      [] node.node = "Binary" -> BinaryNode_evaluate(node, st, depth)
      [] node.node = "Assign" -> AssignNode_evaluate(node, st, depth)
      [] node.node = "Function" -> FunctionNode_evaluate(node, st, depth)
      [] node.node = "Call" -> CallNode_evaluate(node, st, depth)
      [] node.node = "Return" -> ReturnNode_evaluate(node, st, depth)

(***************************************************************************)
(* The embedding API                                                       *)
(***************************************************************************)
\* The scripts the host runs, as text: SourceText[s] is the character
\* sequence of the script written s.
SourceText ==
    "x = 5" :>
        <<"x", " ", "=", " ", "5">>
 @@ "{ x = 5 }" :>
        <<"{", " ", "x", " ", "=", " ", "5", " ", "}">>
 @@ "function f() { { x = 5 } } f()" :>
        <<"f", "u", "n", "c", "t", "i", "o", "n", " ", "f", "(", ")", " ",
          "{", " ", "{", " ", "x", " ", "=", " ", "5", " ", "}", " ", "}",
          " ", "f", "(", ")">>
 @@ "x = 5; x = 6" :>
        <<"x", " ", "=", " ", "5", ";", " ", "x", " ", "=", " ", "6">>
 @@ "function makeAdder(n) { function add(x) { return x + n; } return add; } a5 = makeAdder(5); a5(3)" :>
        <<"f", "u", "n", "c", "t", "i", "o", "n", " ", "m", "a", "k", "e",
          "A", "d", "d", "e", "r", "(", "n", ")", " ", "{", " ", "f", "u",
          "n", "c", "t", "i", "o", "n", " ", "a", "d", "d", "(", "x", ")",
          " ", "{", " ", "r", "e", "t", "u", "r", "n", " ", "x", " ", "+",
          " ", "n", ";", " ", "}", " ", "r", "e", "t", "u", "r", "n", " ",
          "a", "d", "d", ";", " ", "}", " ", "a", "5", " ", "=", " ", "m",
          "a", "k", "e", "A", "d", "d", "e", "r", "(", "5", ")", ";", " ",
          "a", "5", "(", "3", ")">>
 @@ "function makeAdder(n) { function add(x) { return x + n; } return add; } makeAdder(5)(3)" :>
        <<"f", "u", "n", "c", "t", "i", "o", "n", " ", "m", "a", "k", "e",
          "A", "d", "d", "e", "r", "(", "n", ")", " ", "{", " ", "f", "u",
          "n", "c", "t", "i", "o", "n", " ", "a", "d", "d", "(", "x", ")",
          " ", "{", " ", "r", "e", "t", "u", "r", "n", " ", "x", " ", "+",
          " ", "n", ";", " ", "}", " ", "r", "e", "t", "u", "r", "n", " ",
          "a", "d", "d", ";", " ", "}", " ", "m", "a", "k", "e", "A", "d",
          "d", "e", "r", "(", "5", ")", "(", "3", ")">>
 @@ "1 / 0" :>
        <<"1", " ", "/", " ", "0">>
 @@ "{ 1 / 0 }" :>
        <<"{", " ", "1", " ", "/", " ", "0", " ", "}">>
 @@ "function f() { { return 1 / 0; } } f()" :>
        <<"f", "u", "n", "c", "t", "i", "o", "n", " ", "f", "(", ")", " ",
          "{", " ", "{", " ", "r", "e", "t", "u", "r", "n", " ", "1", " ",
          "/", " ", "0", ";", " ", "}", " ", "}", " ", "f", "(", ")">>
 @@ "y" :>
        <<"y">>
 @@ "{ { y } }" :>
        <<"{", " ", "{", " ", "y", " ", "}", " ", "}">>
 @@ "1 - 'a'" :>
        <<"1", " ", "-", " ", "'", "a", "'">>
 @@ "{ 1 - 'a' }" :>
        <<"{", " ", "1", " ", "-", " ", "'", "a", "'", " ", "}">>
 @@ "function f(a, b) { x = 1 } f(1)" :>
        <<"f", "u", "n", "c", "t", "i", "o", "n", " ", "f", "(", "a", ",",
          " ", "b", ")", " ", "{", " ", "x", " ", "=", " ", "1", " ", "}",
          " ", "f", "(", "1", ")">>
 @@ "function f(a) { x = 1 } f(1, 2)" :>
        <<"f", "u", "n", "c", "t", "i", "o", "n", " ", "f", "(", "a", ")",
          " ", "{", " ", "x", " ", "=", " ", "1", " ", "}", " ", "f", "(",
          "1", ",", " ", "2", ")">>
 @@ "function f(a) { } function g() { return f() } g()" :>
        <<"f", "u", "n", "c", "t", "i", "o", "n", " ", "f", "(", "a", ")",
          " ", "{", " ", "}", " ", "f", "u", "n", "c", "t", "i", "o", "n",
          " ", "g", "(", ")", " ", "{", " ", "r", "e", "t", "u", "r", "n",
          " ", "f", "(", ")", " ", "}", " ", "g", "(", ")">>
 @@ "5(1)" :>
        <<"5", "(", "1", ")">>
 @@ "function f(n) { return n(x = 1) } f(5)" :>
        <<"f", "u", "n", "c", "t", "i", "o", "n", " ", "f", "(", "n", ")",
          " ", "{", " ", "r", "e", "t", "u", "r", "n", " ", "n", "(", "x",
          " ", "=", " ", "1", ")", " ", "}", " ", "f", "(", "5", ")">>
 @@ "function g() { return n } function f(n) { return g() } f(1)" :>
        <<"f", "u", "n", "c", "t", "i", "o", "n", " ", "g", "(", ")", " ",
          "{", " ", "r", "e", "t", "u", "r", "n", " ", "n", " ", "}", " ",
          "f", "u", "n", "c", "t", "i", "o", "n", " ", "f", "(", "n", ")",
          " ", "{", " ", "r", "e", "t", "u", "r", "n", " ", "g", "(", ")",
          " ", "}", " ", "f", "(", "1", ")">>
 @@ "1 +" :>
        <<"1", " ", "+">>
 @@ "{ return 1 }" :>
        <<"{", " ", "r", "e", "t", "u", "r", "n", " ", "1", " ", "}">>
 @@ "function f(n) { return f(n) } f(1)" :>
        <<"f", "u", "n", "c", "t", "i", "o", "n", " ", "f", "(", "n", ")",
          " ", "{", " ", "r", "e", "t", "u", "r", "n", " ", "f", "(", "n",
          ")", " ", "}", " ", "f", "(", "1", ")">>
 @@ "function f() { { return 1; } x = 2; return 3 } f()" :>
        <<"f", "u", "n", "c", "t", "i", "o", "n", " ", "f", "(", ")", " ",
          "{", " ", "{", " ", "r", "e", "t", "u", "r", "n", " ", "1", ";",
          " ", "}", " ", "x", " ", "=", " ", "2", ";", " ", "r", "e", "t",
          "u", "r", "n", " ", "3", " ", "}", " ", "f", "(", ")">>
 @@ "function f() { 5 } f()" :>
        <<"f", "u", "n", "c", "t", "i", "o", "n", " ", "f", "(", ")", " ",
          "{", " ", "5", " ", "}", " ", "f", "(", ")">>
 @@ "{ function g() { return g } g() }" :>
        <<"{", " ", "f", "u", "n", "c", "t", "i", "o", "n", " ", "g", "(",
          ")", " ", "{", " ", "r", "e", "t", "u", "r", "n", " ", "g", " ",
          "}", " ", "g", "(", ")", " ", "}">>
 @@ "function o() { function i() { return i } return i() } o()" :>
        <<"f", "u", "n", "c", "t", "i", "o", "n", " ", "o", "(", ")", " ",
          "{", " ", "f", "u", "n", "c", "t", "i", "o", "n", " ", "i", "(",
          ")", " ", "{", " ", "r", "e", "t", "u", "r", "n", " ", "i", " ",
          "}", " ", "r", "e", "t", "u", "r", "n", " ", "i", "(", ")", " ",
          "}", " ", "o", "(", ")">>
 @@ "function f(a, b) { a = b = 7; return a + b } f(1, 2)" :>
        <<"f", "u", "n", "c", "t", "i", "o", "n", " ", "f", "(", "a", ",",
          " ", "b", ")", " ", "{", " ", "a", " ", "=", " ", "b", " ", "=",
          " ", "7", ";", " ", "r", "e", "t", "u", "r", "n", " ", "a", " ",
          "+", " ", "b", " ", "}", " ", "f", "(", "1", ",", " ", "2", ")">>
 @@ "function f() { } 1 +" :>
        <<"f", "u", "n", "c", "t", "i", "o", "n", " ", "f", "(", ")", " ",
          "{", " ", "}", " ", "1", " ", "+">>

\* The scripts of the arithmetic suite: an operator applied to the host
\* variables l and r, the declarations that bind l or r to a function, and
\* literal operands.
BinaryText ==
    "l + r" :>
        <<"l", " ", "+", " ", "r">>
 @@ "l - r" :>
        <<"l", " ", "-", " ", "r">>
 @@ "l * r" :>
        <<"l", " ", "*", " ", "r">>
 @@ "l / r" :>
        <<"l", " ", "/", " ", "r">>
 @@ "function l() { }" :>
        <<"f", "u", "n", "c", "t", "i", "o", "n", " ", "l", "(", ")", " ",
          "{", " ", "}">>
 @@ "function r() { }" :>
        <<"f", "u", "n", "c", "t", "i", "o", "n", " ", "r", "(", ")", " ",
          "{", " ", "}">>
 @@ "3 + 4" :>
        <<"3", " ", "+", " ", "4">>
 @@ "3 + 4.0" :>
        <<"3", " ", "+", " ", "4", ".", "0">>
 @@ "7 / 2" :>
        <<"7", " ", "/", " ", "2">>
 @@ "8 / 2" :>
        <<"8", " ", "/", " ", "2">>
 @@ "1 / 0.0" :>
        <<"1", " ", "/", " ", "0", ".", "0">>
 @@ "'a' + 'b'" :>
        <<"'", "a", "'", " ", "+", " ", "'", "b", "'">>


Sources == DOMAIN SourceText
\* evaluate runs the first statement only: the one-statement scripts
EvaluateSources ==
    {"x = 5", "{ x = 5 }", "1 / 0", "{ 1 / 0 }", "y", "{ { y } }",
     "1 - 'a'", "{ 1 - 'a' }", "5(1)", "1 +", "{ return 1 }",
     "function f(a) { x = 1 } f(1, 2)"}
RunSources == {"x = 5", "{ 1 / 0 }", "1 +"}
BinarySources == DOMAIN BinaryText
AllText == SourceText @@ BinaryText

\* the names and values the host binds with define before it runs a script
HostNames == {"n"}
HostValues == {IntV(7)}
OperandNames == {"l", "r"}
OperandValues ==
    {NullV, BoolV(TRUE), IntV(0), IntV(2), IntV(7), IntV(8),
     DoubleV(0, 1), DoubleV(5, 2), StringV("a")}

\* Interpreter::Interpreter()
NewInterpreter ==
    [envs |-> <<NewEnvironment(0, 0)>>, funs |-> <<>>, environment |-> Globals]

\* the interpreter at the start of a top-level call
Begin == [envs |-> interp.envs, funs |-> interp.funs,
          environment |-> interp.environment, log |-> <<>>, ncalls |-> 0]

\* Interpreter::evaluate(const std::string &)
Interpreter_evaluateSource(source, st) ==
    Only({
        IF lexer.thrown # ""
        THEN With(ThrowR("Evaluation error: " \o lexer.thrown),
                  Logged(st, [ev |-> "throw", what |-> lexer.thrown]))
        ELSE Only({
            IF statement = NoNode
            THEN With(ThrowR("Evaluation error: Failed to parse expression"),
                      Logged(st, [ev |-> "throw",
                                  what |-> "Failed to parse expression"]))
            ELSE Only({ IF r.kind = "error"
                        THEN With(ThrowR("Evaluation error: " \o r.what), r.st)
                        ELSE r
                        : r \in {Interpreter_evaluate(statement, st,
                                                      MaxCallDepth)} })
            : statement \in {Parser_parse(lexer.tokens)} })
        : lexer \in {Lexer_scanTokens(source)} })

\* the for loop of Interpreter::execute
RECURSIVE ExecuteLoop(_, _, _)
ExecuteLoop(statements, lastResult, st) ==
    IF statements = <<>> THEN With(OkR(lastResult), st)
    ELSE Only({ IF r.kind = "value"
                THEN ExecuteLoop(Tail(statements), r.value, r.st)
                ELSE r
                : r \in {Interpreter_evaluate(Head(statements), st,
                                              MaxCallDepth)} })

\* Interpreter::execute
Interpreter_execute(source, st) ==
    Only({
        IF lexer.thrown # ""
        THEN With(ThrowR("Execution error: " \o lexer.thrown),
                  Logged(st, [ev |-> "throw", what |-> lexer.thrown]))
        ELSE Only({
            IF statements = <<>> THEN With(OkR(NullV), st)
            ELSE Only({ IF r.kind = "error"
                        THEN With(ThrowR("Execution error: " \o r.what), r.st)
                        ELSE r
                        : r \in {ExecuteLoop(statements, NullV, st)} })
            : statements \in {Parser_parseAll(lexer.tokens)} })
        : lexer \in {Lexer_scanTokens(source)} })

\* the effect of a top-level call with result r on the host and the
\* interpreter; value is what the host is handed
Finish(op, src, r, value) ==
    /\ interp' = [envs |-> r.st.envs, funs |-> r.st.funs,
                  environment |-> r.st.environment]
    /\ alive' = (r.kind # "crash")
    /\ last' = [op |-> op, src |-> src, kind |-> r.kind, value |-> value,
                what |-> r.what]
    /\ log' = r.st.log
    /\ ops' = ops + 1
    /\ UNCHANGED <<stdlib, input, out, person, handle>>

\* nothing was scanned or parsed yet
NoOutput == [op |-> "none"]

\* ObjectHandle::ObjectHandle: nothing is registered
ObjectHandle == [getters |-> {}, setters |-> {}, methods |-> {}]

\* Person::Person(name, age) of the bind_object example
Person(name, age) == [name |-> name, age |-> age, hobbies |-> <<>>]

Init ==
    /\ stdlib \in {"libstdc++", "msvc"}
    /\ interp = NewInterpreter
    /\ alive = TRUE
    /\ last = [op |-> "new", src |-> "", kind |-> "value", value |-> NullV,
               what |-> ""]
    /\ log = <<>>
    /\ ops = 0
    /\ input = <<>>
    /\ out = NoOutput
    /\ person = Person("Alice", 25)
    /\ handle = ObjectHandle

\* the host calls interpreter.evaluate(text)
EvaluateText(src, text) ==
    /\ alive
    /\ ops < MaxOps
    /\ \E r \in {Interpreter_evaluateSource(text, Begin)} :
          Finish("evaluate", src, r, r.value)

\* the host calls interpreter.execute(text)
ExecuteText(src, text) ==
    /\ alive
    /\ ops < MaxOps
    /\ \E r \in {Interpreter_execute(text, Begin)} :
          Finish("execute", src, r, r.value)

\* the host calls interpreter.run(text): execute, the result discarded
RunText(src, text) ==
    /\ alive
    /\ ops < MaxOps
    /\ \E r \in {Interpreter_execute(text, Begin)} :
          Finish("run", src, r, NullPtr)

\* the host calls interpreter.define(name, value) before it runs any script
DefineValue(name, value) ==
    /\ alive
    /\ ops = 0
    /\ interp' = [interp EXCEPT !.envs =
                    Environment_define(interp.envs, interp.environment, name, value)]
    /\ last' = [op |-> "define", src |-> name, kind |-> "value",
                value |-> value, what |-> ""]
    /\ log' = <<>>
    /\ UNCHANGED <<stdlib, alive, ops, input, out, person, handle>>

\* the host calls interpreter.lookUpVariable(name)
LookUpVariable(name) ==
    /\ alive
    /\ ops < MaxOps
    /\ \E r \in {Interpreter_lookUpVariable(Begin, name)} :
          Finish("lookUpVariable", name, r, r.value)

Evaluate == \E src \in EvaluateSources : EvaluateText(src, SourceText[src])
Execute == \E src \in Sources : ExecuteText(src, SourceText[src])
Run == \E src \in RunSources : RunText(src, SourceText[src])
Define == \E name \in HostNames, value \in HostValues : DefineValue(name, value)
LookUp == \E name \in {"x", "n"} : LookUpVariable(name)

Next == Evaluate \/ Execute \/ Run \/ Define \/ LookUp

Spec == Init /\ [][Next]_vars

\* the arithmetic suite: the host binds l and r, then evaluates operators
DefineOperand ==
    \E name \in OperandNames, value \in OperandValues : DefineValue(name, value)
EvaluateBinary == \E src \in BinarySources : EvaluateText(src, BinaryText[src])

NextBinary == DefineOperand \/ EvaluateBinary

SpecBinary == Init /\ [][NextBinary]_vars

(***************************************************************************)
(* The scoping suite: the host may bind n, then runs scripts that assign   *)
(* in frames and blocks, evaluate operands and arguments with effects,     *)
(* and call functions recursively and through closures.                    *)
(***************************************************************************)
\* The scripts of the scoping suite, as text
ScopeText ==
    "function g() { } function f(n) { n = 2; g = n; return n } f(1)" :>
        <<"f", "u", "n", "c", "t", "i", "o", "n", " ", "g", "(", ")", " ",
          "{", " ", "}", " ", "f", "u", "n", "c", "t", "i", "o", "n", " ",
          "f", "(", "n", ")", " ", "{", " ", "n", " ", "=", " ", "2", ";",
          " ", "g", " ", "=", " ", "n", ";", " ", "r", "e", "t", "u", "r",
          "n", " ", "n", " ", "}", " ", "f", "(", "1", ")">>
 @@ "function f(a, b) { } f(y + (x = 1), z = 2)" :>
        <<"f", "u", "n", "c", "t", "i", "o", "n", " ", "f", "(", "a", ",",
          " ", "b", ")", " ", "{", " ", "}", " ", "f", "(", "y", " ", "+",
          " ", "(", "x", " ", "=", " ", "1", ")", ",", " ", "z", " ", "=",
          " ", "2", ")">>
 @@ "function f(a, b) { return a } f((p = 1) + (q = 2), r = 3)" :>
        <<"f", "u", "n", "c", "t", "i", "o", "n", " ", "f", "(", "a", ",",
          " ", "b", ")", " ", "{", " ", "r", "e", "t", "u", "r", "n", " ",
          "a", " ", "}", " ", "f", "(", "(", "p", " ", "=", " ", "1", ")",
          " ", "+", " ", "(", "q", " ", "=", " ", "2", ")", ",", " ", "r",
          " ", "=", " ", "3", ")">>
 @@ "{ }" :>
        <<"{", " ", "}">>
 @@ "function k(g) { return 5 } function f(g) { g(k); return g } f(f)" :>
        <<"f", "u", "n", "c", "t", "i", "o", "n", " ", "k", "(", "g", ")",
          " ", "{", " ", "r", "e", "t", "u", "r", "n", " ", "5", " ", "}",
          " ", "f", "u", "n", "c", "t", "i", "o", "n", " ", "f", "(", "g",
          ")", " ", "{", " ", "g", "(", "k", ")", ";", " ", "r", "e", "t",
          "u", "r", "n", " ", "g", " ", "}", " ", "f", "(", "f", ")">>
 @@ "function m(n) { function a(x) { return x + n } return a } function u(p, q) { return p(1) + q(1) } u(m(5), m(10))" :>
        <<"f", "u", "n", "c", "t", "i", "o", "n", " ", "m", "(", "n", ")",
          " ", "{", " ", "f", "u", "n", "c", "t", "i", "o", "n", " ", "a",
          "(", "x", ")", " ", "{", " ", "r", "e", "t", "u", "r", "n", " ",
          "x", " ", "+", " ", "n", " ", "}", " ", "r", "e", "t", "u", "r",
          "n", " ", "a", " ", "}", " ", "f", "u", "n", "c", "t", "i", "o",
          "n", " ", "u", "(", "p", ",", " ", "q", ")", " ", "{", " ", "r",
          "e", "t", "u", "r", "n", " ", "p", "(", "1", ")", " ", "+", " ",
          "q", "(", "1", ")", " ", "}", " ", "u", "(", "m", "(", "5", ")",
          ",", " ", "m", "(", "1", "0", ")", ")">>
\* the scripts of the suite: those above and scripts of SourceText
ScopeSources ==
    DOMAIN ScopeText
    \cup {"x = 5; x = 6", "{ x = 5 }", "{ { y } }",
          "{ function g() { return g } g() }",
          "function f(n) { return n(x = 1) } f(5)",
          "function f(a, b) { a = b = 7; return a + b } f(1, 2)",
          "function g() { return n } function f(n) { return g() } f(1)",
          "function makeAdder(n) { function add(x) { return x + n; } return add; } makeAdder(5)(3)"}
ScopeTexts == ScopeText @@ SourceText

ExecuteScope == \E src \in ScopeSources : ExecuteText(src, ScopeTexts[src])
EvaluateScope ==
    \E src \in {"{ }", "{ x = 5 }", "{ { y } }"} :
        EvaluateText(src, ScopeTexts[src])

NextScope == Define \/ ExecuteScope \/ EvaluateScope

SpecScope == Init /\ [][NextScope]_vars

(***************************************************************************)
(* The front end on its own: the host hands a text to the lexer, or to the *)
(* lexer and the parser as Interpreter::evaluate and Interpreter::execute  *)
(* do, and keeps what comes back.                                          *)
(***************************************************************************)
\* the number of fragments a text for the lexer is made of
MaxFragments == 2

RECURSIVE Cat(_)
Cat(parts) == IF parts = <<>> THEN <<>> ELSE Head(parts) \o Cat(Tail(parts))

\* operator characters, digit runs up to and past INT_MAX, a quote, a
\* letter, a character of no token, a blank
LexFragments ==
    {<<"=">>, <<">">>, <<"<">>, <<"!">>, <<"7">>,
     <<"2", "1", "4", "7", "4", "8", "3", "6", "4", "7">>,
     <<"2", "1", "4", "7", "4", "8", "3", "6", "4", "8">>,
     <<"'">>, <<"a">>, <<"@">>, <<" ">>}

LexTexts ==
    {Cat(parts) :
        parts \in UNION {[1..n -> LexFragments] : n \in 0..MaxFragments}}

\* the number of binary operators of an expression handed to the parser
MaxOperators == 2

OperatorChars == {"+", "-", "*", "/"}
OperatorRuns == UNION {[1..n -> OperatorChars] : n \in 1..MaxOperators}

\* the i-th operand of such an expression
Operand(i) == <<"a", "b", "c", "d", "e">>[i]

\* the text  Operand(i) operators[i] Operand(i+1) ... : a + b * c
RECURSIVE Flat(_, _)
Flat(operators, i) ==
    IF i > Len(operators) THEN <<Operand(i)>>
    ELSE <<Operand(i), " ", operators[i], " ">> \o Flat(operators, i + 1)

\* (a + b) * c  and  a + (b * c)
GroupedLeft(o1, o2) ==
    <<"(", "a", " ", o1, " ", "b", ")", " ", o2, " ", "c">>
GroupedRight(o1, o2) ==
    <<"a", " ", o1, " ", "(", "b", " ", o2, " ", "c", ")">>

ExpressionTexts ==
    {Flat(operators, 1) : operators \in OperatorRuns}
    \cup {GroupedLeft(o1, o2) : o1 \in OperatorChars, o2 \in OperatorChars}
    \cup {GroupedRight(o1, o2) : o1 \in OperatorChars, o2 \in OperatorChars}
    \cup {<<"2", " ", "+", " ", "3", " ", "*", " ", "4">>,
          <<"1", "0", " ", "-", " ", "3", " ", "-", " ", "2">>}

\* left-hand sides of an assignment: the text, and the variable it refers
\* to ("" when it is a literal, a binary expression or a call)
Targets ==
    {[text |-> <<"a">>, name |-> "a"],
     [text |-> <<"(", "a", ")">>, name |-> "a"],
     [text |-> <<"7">>, name |-> ""],
     [text |-> <<"'", "s", "'">>, name |-> ""],
     [text |-> <<"a", " ", "+", " ", "b">>, name |-> ""],
     [text |-> <<"a", " ", "*", " ", "2">>, name |-> ""],
     [text |-> <<"f", "(", ")">>, name |-> ""],
     [text |-> <<"f", "(", "a", ")">>, name |-> ""]}

\* right-hand sides: the text and the expression it is
AssignedValues ==
    {[text |-> <<"1">>, node |-> LiteralNode(IntV(1))],
     [text |-> <<"b">>, node |-> VariableNode("b")],
     [text |-> <<"b", " ", "+", " ", "1">>,
      node |-> BinaryNode(VariableNode("b"), "PLUS", LiteralNode(IntV(1)))],
     [text |-> <<"b", " ", "=", " ", "7">>,
      node |-> AssignNode("b", LiteralNode(IntV(7)))],
     [text |-> <<"b", " ", "=", " ", "c", " ", "=", " ", "7">>,
      node |-> AssignNode("b", AssignNode("c", LiteralNode(IntV(7))))]}

AssignmentText(target, value) == target.text \o <<" ", "=", " ">> \o value.text

AssignmentTexts ==
    {AssignmentText(target, value) :
        target \in Targets, value \in AssignedValues}

\* a statement, and the statement that follows it
FirstStatements ==
    {<<"a">>, <<"f", "(", ")">>, <<"a", " ", "=", " ", "1">>,
     <<"r", "e", "t", "u", "r", "n">>,
     <<"r", "e", "t", "u", "r", "n", " ", "a">>,
     <<"{", " ", "a", " ", "}">>}
SecondStatements ==
    {<<"b">>, <<"(", "b", ")">>, <<"-", " ", "b">>,
     <<"b", " ", "=", " ", "2">>, <<"{", " ", "b", " ", "}">>,
     <<"r", "e", "t", "u", "r", "n", " ", "b">>}

\* the two statements with a semicolon, a blank or both between them, and
\* with or without a closing semicolon
StatementTexts ==
    {first \o between \o second \o closing :
        first \in FirstStatements, second \in SecondStatements,
        between \in {<<";">>, <<" ">>, <<";", " ">>},
        closing \in {<<>>, <<";">>}}

SyntaxTexts ==
    LexTexts \cup ExpressionTexts \cup AssignmentTexts \cup StatementTexts

InitSyntax ==
    /\ stdlib \in {"libstdc++", "msvc"}
    /\ interp = NewInterpreter
    /\ alive = TRUE
    /\ last = [op |-> "new", src |-> "", kind |-> "value", value |-> NullV,
               what |-> ""]
    /\ log = <<>>
    /\ ops = 0
    /\ input \in SyntaxTexts
    /\ out = NoOutput
    /\ person = Person("Alice", 25)
    /\ handle = ObjectHandle

\* what a call of the front end hands back: the exception that left it, the
\* lines written to the error stream, and the tokens, the statement or the
\* statements returned
Output(op, lexer, cerr, node, statements) ==
    [op |-> op, thrown |-> lexer.thrown, cerr |-> lexer.diag \o cerr,
     tokens |-> lexer.tokens, node |-> node, statements |-> statements]

Handed(o) ==
    /\ ops < MaxOps
    /\ out' = o
    /\ ops' = ops + 1
    /\ UNCHANGED <<stdlib, interp, alive, last, log, input, person, handle>>

\* Lexer lexer(input); lexer.scanTokens()
ScanTokens ==
    \E lexer \in {Lexer_scanTokens(input)} :
        Handed(Output("scanTokens", lexer, <<>>, NoNode, <<>>))

\* Lexer lexer(input); Parser parser(lexer.scanTokens()); parser.parse()
Parse ==
    \E lexer \in {Lexer_scanTokens(input)} :
        IF lexer.thrown # ""
        THEN Handed(Output("parse", lexer, <<>>, NoNode, <<>>))
        ELSE Handed(Output("parse", lexer, Parser_parseCerr(lexer.tokens),
                           Parser_parse(lexer.tokens), <<>>))

\* Lexer lexer(input); Parser parser(lexer.scanTokens()); parser.parseAll()
ParseAll ==
    \E lexer \in {Lexer_scanTokens(input)} :
        IF lexer.thrown # ""
        THEN Handed(Output("parseAll", lexer, <<>>, NoNode, <<>>))
        ELSE Handed(Output("parseAll", lexer,
                           Parser_parseAllCerr(lexer.tokens), NoNode,
                           Parser_parseAll(lexer.tokens)))

NextSyntax == ScanTokens \/ Parse \/ ParseAll

SpecSyntax == InitSyntax /\ [][NextSyntax]_vars

(***************************************************************************)
(* The native handle of the bind_object example: an ObjectHandle on a      *)
(* Person with the getters, setters and methods of createPersonHandle.     *)
(* p is the Person behind the handle; a call yields an outcome (kind,      *)
(* value, what) and the Person it leaves.                                  *)
(***************************************************************************)
Did(r, p) == [kind |-> r.kind, value |-> r.value, what |-> r.what, person |-> p]

\* the getters registered by createPersonHandle
Getters == {"name", "age"}
Getter(name, p) ==
    CASE name = "name" -> Did(OkR(StringV(p.name)), p)
      [] name = "age" -> Did(OkR(IntV(p.age)), p)

\* the setter of "name"
Setter_name(p, value) ==
    IF ~isString(value) THEN Did(ThrowR("name must be a string"), p)
    ELSE Did(OkR(NullPtr), [p EXCEPT !.name = value.s])

\* the setter of "age" with the mutation "a value that is not an Int sets
\* the age to 0"
Setter_ageUnchecked(p, value) ==
    IF ~isInt(value) THEN Did(OkR(NullPtr), [p EXCEPT !.age = 0])
    ELSE Did(OkR(NullPtr), [p EXCEPT !.age = value.i])

\* the setter of "age"
Setter_age(p, value) ==
    IF ~isInt(value) THEN Did(ThrowR("age must be an integer"), p)
    ELSE Did(OkR(NullPtr), [p EXCEPT !.age = value.i])

\* the setters registered by createPersonHandle
Setters == {"name", "age"}
Setter(name, p, value) ==
    CASE name = "name" -> Setter_name(p, value)
      [] name = "age" -> Setter_age(p, value)

\* the methods registered by createPersonHandle
Methods == {"introduce", "addHobby", "celebrateBirthday"}
Method(name, p, args) ==
    CASE name = "introduce" ->
           Did(OkR(StringV("Hi, I'm " \o p.name \o " and I'm "
                           \o ToString(p.age) \o " years old.")), p)
      [] name = "addHobby" ->
           IF Len(args) # 1 \/ ~isString(args[1])
           THEN Did(ThrowR("addHobby expects one string argument"), p)
           ELSE Did(OkR(NullV), [p EXCEPT !.hobbies = Append(@, args[1].s)])
      [] name = "celebrateBirthday" ->
           Did(OkR(NullV), [p EXCEPT !.age = @ + 1])

\* ObjectHandle::registerGetter, registerSetter, registerMethod
ObjectHandle_registerGetter(h, name) == [h EXCEPT !.getters = @ \cup {name}]
ObjectHandle_registerSetter(h, name) == [h EXCEPT !.setters = @ \cup {name}]
ObjectHandle_registerMethod(h, name) == [h EXCEPT !.methods = @ \cup {name}]

\* ObjectHandle::getProperty
ObjectHandle_getProperty(h, p, name) ==
    IF name \in h.getters THEN Getter(name, p)
    ELSE Did(ThrowR("Property '" \o name \o "' not found"), p)

\* ObjectHandle::setProperty with the mutation "the setter is looked up among
\* the names that have a getter"
ObjectHandle_setPropertyOfGetters(h, p, name, value) ==
    IF name \in h.getters THEN Setter(name, p, value)
    ELSE Did(ThrowR("Property '" \o name \o "' not found"), p)

\* ObjectHandle::setProperty
ObjectHandle_setProperty(h, p, name, value) ==
    IF name \in h.setters THEN Setter(name, p, value)
    ELSE Did(ThrowR("Property '" \o name \o "' not found"), p)

\* ObjectHandle::callMethod
ObjectHandle_callMethod(h, p, name, args) ==
    IF name \in h.methods THEN Method(name, p, args)
    ELSE Did(ThrowR("Method '" \o name \o "' not found"), p)

\* the names and the values the host uses on the handle
PropertyNames == {"name", "age", "email", "introduce"}
PropertyValues ==
    {IntV(26), IntV(0), StringV("Bob"), DoubleV(53, 2), NullV}
MethodNames == {"introduce", "addHobby", "celebrateBirthday", "fly", "age"}
MethodArguments == {<<>>, <<StringV("chess")>>}

\* the effect of a call on the handle with result r; value is the value
\* handed over: to the host by getProperty and callMethod, to the handle
\* by setProperty
Handled(op, name, r, value) ==
    /\ ops < MaxOps
    /\ person' = r.person
    /\ last' = [op |-> op, src |-> name, kind |-> r.kind, value |-> value,
                what |-> r.what]
    /\ ops' = ops + 1
    /\ UNCHANGED <<stdlib, interp, alive, log, input, out, handle>>

\* the calls createPersonHandle makes on the new handle, in order
Registrations ==
    <<[map |-> "getters", name |-> "name"], [map |-> "setters", name |-> "name"],
      [map |-> "getters", name |-> "age"], [map |-> "setters", name |-> "age"],
      [map |-> "methods", name |-> "introduce"],
      [map |-> "methods", name |-> "addHobby"],
      [map |-> "methods", name |-> "celebrateBirthday"]>>

Registered(h) ==
    Cardinality(h.getters) + Cardinality(h.setters) + Cardinality(h.methods)

\* the next registerGetter, registerSetter or registerMethod call of
\* createPersonHandle; the host uses the handle it has by then
Register ==
    /\ ops = 0
    /\ Registered(handle) < Len(Registrations)
    /\ \E r \in {Registrations[Registered(handle) + 1]} :
          handle' = CASE r.map = "getters" ->
                           ObjectHandle_registerGetter(handle, r.name)
                      [] r.map = "setters" ->
                           ObjectHandle_registerSetter(handle, r.name)
                      [] r.map = "methods" ->
                           ObjectHandle_registerMethod(handle, r.name)
    /\ UNCHANGED <<stdlib, interp, alive, last, log, ops, input, out, person>>

\* the host calls handle->getProperty(name)
GetProperty ==
    \E name \in PropertyNames :
        \E r \in {ObjectHandle_getProperty(handle, person, name)} :
            Handled("getProperty", name, r, r.value)

\* the host calls handle->setProperty(name, value)
SetProperty ==
    \E name \in PropertyNames, value \in PropertyValues :
        \E r \in {ObjectHandle_setProperty(handle, person, name, value)} :
            Handled("setProperty", name, r, value)

\* the host calls handle->callMethod(name, args)
CallMethod ==
    \E name \in MethodNames, args \in MethodArguments :
        \E r \in {ObjectHandle_callMethod(handle, person, name, args)} :
            Handled("callMethod", name, r, r.value)

NextHandle == Register \/ GetProperty \/ SetProperty \/ CallMethod

SpecHandle == Init /\ [][NextHandle]_vars

(***************************************************************************)
(* The bind_object example: main creates the handle of alice, defines the  *)
(* name alice in the interpreter and evaluates scripts that use the        *)
(* handle.  A Value holds one of the alternatives of Value::Variant, none  *)
(* of which is a handle, so alice is bound to a value of those             *)
(* alternatives.                                                           *)
(***************************************************************************)
\* The scripts main of the bind_object example evaluates on alice, as text
BindText ==
    "alice.name" :>
        <<"a", "l", "i", "c", "e", ".", "n", "a", "m", "e">>
 @@ "alice.age" :>
        <<"a", "l", "i", "c", "e", ".", "a", "g", "e">>
 @@ "alice.age = 26" :>
        <<"a", "l", "i", "c", "e", ".", "a", "g", "e", " ", "=", " ", "2",
          "6">>
 @@ "alice.introduce()" :>
        <<"a", "l", "i", "c", "e", ".", "i", "n", "t", "r", "o", "d", "u",
          "c", "e", "(", ")">>
 @@ "alice.celebrateBirthday()" :>
        <<"a", "l", "i", "c", "e", ".", "c", "e", "l", "e", "b", "r", "a",
          "t", "e", "B", "i", "r", "t", "h", "d", "a", "y", "(", ")">>
BindSources == DOMAIN BindText
\* the values the host can bind alice to
BindValues == {NullV, IntV(25), StringV("Alice")}

\* main: interpreter.define("alice", ...)
DefineHandle == \E value \in BindValues : DefineValue("alice", value)
\* main: interpreter.evaluate("alice. ...")
EvaluateBind == \E src \in BindSources : EvaluateText(src, BindText[src])

NextBind == Register \/ DefineHandle \/ EvaluateBind

SpecBind == Init /\ [][NextBind]_vars

(***************************************************************************)
(* The command-line interpreter: main hands the path of a script file to   *)
(* runFile, which reads the file, scans and parses it, evaluates the       *)
(* statements in a new interpreter and returns the exit code.              *)
(***************************************************************************)
\* the number of lines of a script file
MaxLines == 2

\* The lines a script file is made of, as text: statements of the kinds
\* of test.esla, and a division by zero
LineText ==
    "a = 10" :>
        <<"a", " ", "=", " ", "1", "0">>
 @@ "function add(x, y) { return x + y; }" :>
        <<"f", "u", "n", "c", "t", "i", "o", "n", " ", "a", "d", "d", "(",
          "x", ",", " ", "y", ")", " ", "{", " ", "r", "e", "t", "u", "r",
          "n", " ", "x", " ", "+", " ", "y", ";", " ", "}">>
 @@ "result = add(2, 3);" :>
        <<"r", "e", "s", "u", "l", "t", " ", "=", " ", "a", "d", "d", "(",
          "2", ",", " ", "3", ")", ";">>
 @@ "function factorial(n) { if (n <= 1) { return 1; } return 2 }" :>
        <<"f", "u", "n", "c", "t", "i", "o", "n", " ", "f", "a", "c", "t",
          "o", "r", "i", "a", "l", "(", "n", ")", " ", "{", " ", "i", "f",
          " ", "(", "n", " ", "<", "=", " ", "1", ")", " ", "{", " ", "r",
          "e", "t", "u", "r", "n", " ", "1", ";", " ", "}", " ", "r", "e",
          "t", "u", "r", "n", " ", "2", " ", "}">>
 @@ "fact5 = factorial(5);" :>
        <<"f", "a", "c", "t", "5", " ", "=", " ", "f", "a", "c", "t", "o",
          "r", "i", "a", "l", "(", "5", ")", ";">>
 @@ "quotient = 1 / 0;" :>
        <<"q", "u", "o", "t", "i", "e", "n", "t", " ", "=", " ", "1", " ",
          "/", " ", "0", ";">>
FileLines == DOMAIN LineText
\* the script files: up to MaxLines lines
Files == UNION {[1..n -> FileLines] : n \in 0..MaxLines}
\* the content of a file: its lines, each ended by a newline
RECURSIVE FileText(_)
FileText(lines) ==
    IF lines = <<>> THEN <<>>
    ELSE LineText[Head(lines)] \o <<"\n">> \o FileText(Tail(lines))

InitFile ==
    /\ stdlib \in {"libstdc++", "msvc"}
    /\ interp = NewInterpreter
    /\ alive = TRUE
    /\ last = [op |-> "new", src |-> "", kind |-> "value", value |-> NullV,
               what |-> ""]
    /\ log = <<>>
    /\ ops = 0
    /\ input \in {FileText(lines) : lines \in Files}
    /\ out = NoOutput
    /\ person = Person("Alice", 25)
    /\ handle = ObjectHandle

\* the interpreter runFile constructs
Interpreter == [envs |-> NewInterpreter.envs, funs |-> NewInterpreter.funs,
                environment |-> NewInterpreter.environment, log |-> <<>>,
                ncalls |-> 0]

\* the for loop of runFile
RECURSIVE RunFileLoop(_, _)
RunFileLoop(statements, st) ==
    IF statements = <<>> THEN With(OkR(NullV), st)
    ELSE Only({ IF r.kind = "value" THEN RunFileLoop(Tail(statements), r.st)
                ELSE r
                : r \in {Interpreter_evaluate(Head(statements), st,
                                              MaxCallDepth)} })

\* what runFile leaves when it returns: the exit code, the lines written to
\* the error stream, and the interpreter at the end
Exit(code, cerr, st) ==
    [op |-> "runFile", returned |-> TRUE, code |-> code, cerr |-> cerr,
     st |-> st]
\* what is left when the process is ended inside runFile, by an exception
\* nothing catches or by a fault: the status of the process is not 0
Terminate(cerr, st) ==
    [op |-> "runFile", returned |-> FALSE, code |-> 1, cerr |-> cerr,
     st |-> st]

\* runFile, from the content of the file on
runFile(source) ==
    Only({
        IF lexer.thrown # "" THEN Terminate(lexer.diag, Interpreter)
        ELSE Only({
            IF statements = <<>>
            THEN Exit(1, lexer.diag \o Parser_parseAllCerr(lexer.tokens)
                            \o <<"Failed to parse file.">>, Interpreter)
            ELSE Only({
                CASE r.kind = "value" -> Exit(0, lexer.diag, r.st)
                  [] r.kind = "error" ->
                       Exit(1, lexer.diag \o <<"Runtime error: " \o r.what>>,
                            r.st)
                  [] r.kind = "return" ->
                       Exit(1, lexer.diag \o <<"Unknown runtime error.">>, r.st)
                  [] r.kind = "crash" -> Terminate(lexer.diag, r.st)
                : r \in {RunFileLoop(statements, Interpreter)} })
            : statements \in {Parser_parseAll(lexer.tokens)} })
        : lexer \in {Lexer_scanTokens(source)} })

\* main with a script file as argument
RunFile ==
    /\ ops = 0
    /\ \E e \in {runFile(input)} :
          /\ out' = [op |-> e.op, returned |-> e.returned, code |-> e.code,
                     cerr |-> e.cerr]
          /\ interp' = [envs |-> e.st.envs, funs |-> e.st.funs,
                        environment |-> e.st.environment]
          /\ log' = e.st.log
    /\ ops' = 1
    /\ UNCHANGED <<stdlib, alive, last, input, person, handle>>

NextFile == RunFile

SpecFile == InitFile /\ [][NextFile]_vars

(***************************************************************************)
(* Properties                                                              *)
(***************************************************************************)
Events(kind) == {i \in DOMAIN log : log[i].ev = kind}
GlobalValues == interp.envs[Globals].values
TopLevelCall == last.op \in {"evaluate", "execute", "run"}

\* the text that evaluate / execute put before what() of a caught error
ErrorPrefix(op) ==
    IF op = "evaluate" THEN "Evaluation error: " ELSE "Execution error: "

\* event j writes name in the global frame
WritesGlobal(j, name) ==
    \/ log[j].ev = "assign" /\ log[j].name = name /\ log[j].target = Globals
    \/ log[j].ev = "define" /\ log[j].name = name /\ log[j].env = Globals

\* C1: when an assignment finds its name in no scope of the chain, the
\* global frame afterwards binds the name to the assigned value (unless a
\* later statement of the same call wrote the name again).
C1_AutoGlobalization ==
    (alive /\ TopLevelCall) =>
        \A i \in Events("assign") :
            (log[i].caught
             /\ ~\E j \in DOMAIN log : j > i /\ WritesGlobal(j, log[i].name))
            => /\ log[i].name \in DOMAIN GlobalValues
               /\ GlobalValues[log[i].name] = log[i].value

MakeAdderAssigned ==
    "function makeAdder(n) { function add(x) { return x + n; } return add; } a5 = makeAdder(5); a5(3)"
MakeAdderDirect ==
    "function makeAdder(n) { function add(x) { return x + n; } return add; } makeAdder(5)(3)"

\* C2: executing the makeAdder script yields Int 8: the function returned by
\* makeAdder(5) still resolves n to 5 when it is called after makeAdder
\* has returned.
C2_ClosureRetainsScope ==
    (last.op = "execute" /\ last.src \in {MakeAdderAssigned, MakeAdderDirect})
        => (last.kind = "value" /\ last.value = IntV(8))

\* C3: the error a top-level call fails with carries the message of the
\* error that was raised, whether it was raised by a top-level statement or
\* inside a block or a function body.
C3_ErrorIdentity ==
    (TopLevelCall /\ last.kind = "error") =>
        \A i \in Events("throw") : last.what = ErrorPrefix(last.op) \o log[i].what

\* C4: between top-level calls the current environment is the global one,
\* whatever the last call did: returned, failed to parse, or failed at any
\* nesting depth.
C4_CursorRestored == alive => interp.environment = Globals

\* number of executeBlock activations open when event k is logged
Nesting(k) ==
    Cardinality({i \in Events("enter") : i < k})
        - Cardinality({i \in Events("exit") : i < k})

\* a call failed with an error raised two executeBlock activations deep
C4_Witness ==
    /\ alive /\ TopLevelCall /\ last.kind = "error"
    /\ \E k \in Events("throw") : Nesting(k) >= 2

IsZero(v) == (isInt(v) /\ v.i = 0) \/ (isDouble(v) /\ v.n = 0)
Divides(a, b) == Abs(b) % Abs(a) = 0

\* C5: for numeric operands + - * / yield a value unless a divisor is zero;
\* the value is Int when both operands are Int (for / only if the divisor
\* divides the dividend, else Double) and Double when an operand is Double.
C5_NumericPromotion ==
    /\ \A i \in Events("binary") :
        LET e == log[i]
        IN  (isNumber(e.left) /\ isNumber(e.right)) =>
              IF e.op = "DIVIDE" /\ IsZero(e.right) THEN e.kind = "error"
              ELSE /\ e.kind = "value"
                   /\ IF isInt(e.left) /\ isInt(e.right)
                         /\ (e.op = "DIVIDE" => Divides(e.right.i, e.left.i))
                      THEN isInt(e.value)
                      ELSE isDouble(e.value)
    /\ (last.op = "evaluate" /\ last.src = "3 + 4") => last.value = IntV(7)
    /\ (last.op = "evaluate" /\ last.src = "3 + 4.0") => last.value = DoubleV(7, 1)
    /\ (last.op = "evaluate" /\ last.src = "7 / 2") => last.value = DoubleV(7, 2)
    /\ (last.op = "evaluate" /\ last.src = "8 / 2") => last.value = IntV(4)

\* an Int divided by an Int that does not divide it was promoted
C5_Witness ==
    \E i \in Events("binary") :
        /\ log[i].op = "DIVIDE" /\ isInt(log[i].left) /\ isInt(log[i].right)
        /\ ~IsZero(log[i].right) /\ ~Divides(log[i].right.i, log[i].left.i)
        /\ log[i].kind = "value"

\* C6: a division of a number by Int 0 or Double 0.0 fails with "Division
\* by zero."; a division with an operand that is not a number fails with
\* "Operands must be numbers.", whatever the divisor; the call fails with
\* that error.
C6_DivisionErrors ==
    \A i \in Events("binary") :
        LET e == log[i]
        IN  (e.op = "DIVIDE" /\ e.left # NullPtr /\ e.right # NullPtr) =>
              /\ (isNumber(e.left) /\ IsZero(e.right)) =>
                    /\ e.kind = "error" /\ e.what = "Division by zero."
                    /\ last.kind = "error"
                    /\ last.what = ErrorPrefix(last.op) \o "Division by zero."
              /\ (~isNumber(e.left) \/ ~isNumber(e.right)) =>
                    /\ e.kind = "error" /\ e.what = "Operands must be numbers."
                    /\ last.kind = "error"
                    /\ last.what = ErrorPrefix(last.op) \o "Operands must be numbers."

\* a number was divided by Double 0.0
C6_Witness ==
    \E i \in Events("binary") :
        /\ log[i].op = "DIVIDE" /\ isNumber(log[i].left)
        /\ isDouble(log[i].right) /\ IsZero(log[i].right)

\* C7: an addition yields a value only for String + String or for two
\* numbers; every other pair of operands fails with an error.
C7_AdditionOperands ==
    \A i \in Events("binary") :
        LET e == log[i]
        IN  (e.op = "PLUS" /\ e.left # NullPtr /\ e.right # NullPtr) =>
              IF \/ isString(e.left) /\ isString(e.right)
                 \/ isNumber(e.left) /\ isNumber(e.right)
              THEN e.kind = "value"
              ELSE e.kind = "error"

\* the callee event of call id
CalleeOf(id) == CHOOSE j \in Events("callee") : log[j].id = id
ParametersOf(id) == interp.funs[log[CalleeOf(id)].value.fid].parameters

\* C8: a call whose argument count differs from the parameter count of the
\* function throws "Expected <p> arguments but got <a>." right after the
\* arguments are evaluated: no frame is created, no parameter is bound and
\* no statement is executed afterwards.
C8_ArityMismatch ==
    \A i \in Events("argsdone") :
        (isFunction(log[CalleeOf(log[i].id)].value)
         /\ log[i].got # Len(ParametersOf(log[i].id))) =>
            /\ i + 1 \in DOMAIN log
            /\ log[i + 1].ev = "throw"
            /\ log[i + 1].what =
                  "Expected " \o ToString(Len(ParametersOf(log[i].id)))
                  \o " arguments but got " \o ToString(log[i].got) \o "."
            /\ \A j \in DOMAIN log :
                  j > i => log[j].ev \notin {"frame", "bind", "stmt", "enter"}
            /\ last.kind = "error"

\* a function was called with too many arguments
C8_Witness ==
    \E i \in Events("argsdone") :
        /\ isFunction(log[CalleeOf(log[i].id)].value)
        /\ log[i].got > Len(ParametersOf(log[i].id))

\* C9: a call whose callee evaluates to a Value that is not a function
\* throws "Can only call functions." before any of its arguments is
\* evaluated.
C9_NotCallable ==
    \A i \in Events("callee") :
        (log[i].value # NullPtr /\ ~isFunction(log[i].value)) =>
            /\ i + 1 \in DOMAIN log
            /\ log[i + 1].ev = "throw"
            /\ log[i + 1].what = "Can only call functions."
            /\ \A j \in Events("arg") : log[j].id # log[i].id
            /\ last.kind = "error"

\* inside a function body, a variable that holds a non-function was called
\* with an argument
C9_Witness ==
    \E i \in Events("callee") :
        /\ log[i].value # NullPtr /\ ~isFunction(log[i].value)
        /\ log[i].nargs > 0
        /\ \E k \in Events("frame") : k < i

\* the frames a name may resolve in, for a lookup made with cursor e: e and
\* the scopes it was created in, by declaration
RECURSIVE LexicalChain(_)
LexicalChain(e) ==
    IF e = 0 THEN {} ELSE {e} \cup LexicalChain(interp.envs[e].lexical)

\* C10: the frame of a call encloses the closure of the callee, and a name
\* is resolved in the frame of the lookup, the scopes it was declared in
\* or the globals, never in a frame of the caller.
C10_LexicalScoping ==
    /\ \A e \in DOMAIN interp.envs :
          interp.envs[e].enclosing = interp.envs[e].lexical
    /\ \A i \in Events("frame") :
          interp.envs[log[i].env].enclosing = log[i].closure
    /\ \A k \in Events("lookup") :
          log[k].found # 0 => log[k].found \in LexicalChain(log[k].from)

\* a name was looked up in the body of a function whose caller's frame
\* binds that name, and it was not resolved there
C10_Witness ==
    \E k \in Events("lookup") : \E i \in Events("frame") :
        /\ i < k
        /\ log[i].env = log[k].from
        /\ log[i].caller # Globals
        /\ log[i].caller \notin LexicalChain(log[i].env)
        /\ log[k].name \in DOMAIN interp.envs[log[i].caller].values
        /\ log[k].found # log[i].caller

\* ---------------------------------------------------------------------
\* C11
\* ---------------------------------------------------------------------

\* the frame event of the call id
FrameOf(id) == CHOOSE i \in Events("frame") : log[i].id = id

\* the statements and the returns of the body of the call that yields its
\* result at event k, in the blocks of the body at any nesting, the bodies
\* of the calls it makes excluded
BodyEvents(k) ==
    {j \in (FrameOf(log[k].id) + 1)..(k - 1) :
        /\ log[j].ev \in {"stmt", "return"}
        /\ log[j].depth = log[FrameOf(log[k].id)].depth}

BodyReturns(k) == {j \in BodyEvents(k) : log[j].ev = "return"}

First(S) == CHOOSE j \in S : \A i \in S : j <= i

\* C11: the result of a call is the value of the first return its body
\* executes, at any block depth, and no statement of the body executes after
\* that return; a body that executes no return yields Null, whatever its
\* last statement yields.
C11_FirstReturnWins ==
    TopLevelCall =>
        \A k \in Events("result") :
            IF BodyReturns(k) = {}
            THEN log[k].value = NullV
            ELSE /\ log[k].value = log[First(BodyReturns(k))].value
                 /\ \A j \in BodyEvents(k) : j <= First(BodyReturns(k))

\* a call whose first return sits in a nested block, with statements after
\* the block, has yielded the value of that return
C11_Witness ==
    /\ last.op = "execute"
    /\ last.src = "function f() { { return 1; } x = 2; return 3 } f()"
    /\ last.kind = "value" /\ last.value = IntV(1)
    /\ \E k \in Events("result") :
           /\ BodyReturns(k) # {}
           /\ log[First(BodyReturns(k))].env # log[FrameOf(log[k].id)].env
           /\ log[k].value = IntV(1)

\* a call whose body ends in a non-null expression and executes no return
\* has yielded Null
C11_WitnessNoReturn ==
    /\ last.src = "function f() { 5 } f()"
    /\ \E k \in Events("result") :
           /\ BodyReturns(k) = {} /\ BodyEvents(k) # {}
           /\ log[k].value = NullV

\* ---------------------------------------------------------------------
\* C12
\* ---------------------------------------------------------------------

\* the events that bind or rebind a name
Binders == Events("define") \cup Events("bind") \cup Events("assign")

\* <<d, i, j>>: d declares a function, i is the frame of a call of that
\* function, and j looks the name of the function up inside the body of
\* that call, the name being bound by nothing but the declaration
OwnNameLookups ==
    {t \in Events("define") \X Events("frame") \X Events("lookup") :
        /\ t[1] < t[2] /\ t[2] < t[3]
        /\ log[CalleeOf(log[t[2]].id)].value = log[t[1]].value
        /\ log[t[3]].name = log[t[1]].name
        /\ log[t[2]].env \in LexicalChain(log[t[3]].from)
        /\ \A m \in Binders \ {t[1]} : log[m].name # log[t[1]].name}

\* C12: a function declared in any scope that looks its own name up inside
\* its body finds the binding of its declaration and gets the function
\* itself.
C12_SelfReference ==
    TopLevelCall =>
        \A t \in OwnNameLookups :
            /\ log[t[3]].found = log[t[1]].env
            /\ log[t[3]].value = log[t[1]].value

\* a function declared in a scope other than the globals (a block, the
\* body of another function) has looked its own name up in its body
C12_Witness ==
    /\ TopLevelCall
    /\ \E t \in OwnNameLookups :
           /\ log[t[1]].env # Globals
           /\ log[t[3]].value = log[t[1]].value
           /\ isFunction(log[t[3]].value)

\* ---------------------------------------------------------------------
\* C13
\* ---------------------------------------------------------------------

EndTokens == {i \in DOMAIN out.tokens : out.tokens[i].type = "EOF_TOKEN"}

\* C13: scanTokens never fails: for every input it returns tokens of which
\* the last, and no other, is the end-of-input token.
C13_ScanTotal ==
    out.op = "scanTokens" =>
        /\ out.thrown = ""
        /\ EndTokens = {Len(out.tokens)}

\* ---------------------------------------------------------------------
\* C14
\* ---------------------------------------------------------------------

\* C14: a GREATER_EQUAL token is produced for the lexeme >= only, the
\* two-character tokens are == >= <= != and a ! alone gives no token.
C14_TwoCharacterOperators ==
    out.op = "scanTokens" =>
        \A i \in DOMAIN out.tokens :
            /\ out.tokens[i].type = "GREATER_EQUAL"
                  => out.tokens[i].lexeme = ">="
            /\ out.tokens[i].type \in {"EQUALS", "LESS", "GREATER", "NOT_EQUAL",
                                       "LESS_EQUAL", "EQUAL_EQUAL", "GREATER_EQUAL"}
                  => out.tokens[i].lexeme \in {"=", "<", ">", "==", ">=", "<=", "!="}

\* ---------------------------------------------------------------------
\* C15
\* ---------------------------------------------------------------------

OperatorType(c) ==
    CASE c = "+" -> "PLUS" [] c = "-" -> "MINUS"
      [] c = "*" -> "MULTIPLY" [] c = "/" -> "DIVIDE"

Last(S) == CHOOSE j \in S : \A i \in S : i <= j

\* the operator applied last in Operand(lo) operators[lo] ... Operand(hi):
\* the rightmost additive one, or the rightmost one when none is additive
Outermost(operators, lo, hi) ==
    IF \E i \in lo..(hi - 1) : operators[i] \in {"+", "-"}
    THEN Last({i \in lo..(hi - 1) : operators[i] \in {"+", "-"}})
    ELSE hi - 1

\* the reading of Operand(lo) operators[lo] ... Operand(hi) in which * and /
\* bind tighter than + and - and operators of one level group to the left
RECURSIVE Reading(_, _, _)
Reading(operators, lo, hi) ==
    IF lo = hi THEN VariableNode(Operand(lo))
    ELSE BinaryNode(Reading(operators, lo, Outermost(operators, lo, hi)),
                    OperatorType(operators[Outermost(operators, lo, hi)]),
                    Reading(operators, Outermost(operators, lo, hi) + 1, hi))

Binary3(l, o, r) == BinaryNode(l, OperatorType(o), r)

\* C15: * and / bind tighter than + and -, operators of the same level
\* associate to the left, and parentheses override both: 2 + 3 * 4 is read
\* 2 + (3 * 4) and 10 - 3 - 2 is read (10 - 3) - 2.
C15_Precedence ==
    out.op = "parse" =>
        /\ \A operators \in OperatorRuns :
              input = Flat(operators, 1) =>
                  out.node = ExpressionStmt(
                                Reading(operators, 1, Len(operators) + 1))
        /\ \A o1 \in OperatorChars, o2 \in OperatorChars :
              /\ input = GroupedLeft(o1, o2) =>
                    out.node = ExpressionStmt(
                        Binary3(Binary3(VariableNode("a"), o1, VariableNode("b")),
                                o2, VariableNode("c")))
              /\ input = GroupedRight(o1, o2) =>
                    out.node = ExpressionStmt(
                        Binary3(VariableNode("a"), o1,
                                Binary3(VariableNode("b"), o2, VariableNode("c"))))
        /\ input = <<"2", " ", "+", " ", "3", " ", "*", " ", "4">> =>
              out.node = ExpressionStmt(
                  Binary3(LiteralNode(IntV(2)), "+",
                          Binary3(LiteralNode(IntV(3)), "*", LiteralNode(IntV(4)))))
        /\ input = <<"1", "0", " ", "-", " ", "3", " ", "-", " ", "2">> =>
              out.node = ExpressionStmt(
                  Binary3(Binary3(LiteralNode(IntV(10)), "-", LiteralNode(IntV(3))),
                          "-", LiteralNode(IntV(2))))

\* a + b * c was parsed, and read a + (b * c)
C15_Witness ==
    /\ out.op = "parse"
    /\ input = Flat(<<"+", "*">>, 1)
    /\ out.node = ExpressionStmt(
           Binary3(VariableNode("a"), "+",
                   Binary3(VariableNode("b"), "*", VariableNode("c"))))

\* ---------------------------------------------------------------------
\* C16
\* ---------------------------------------------------------------------

\* C16: assignment is right-associative, a = b = e is a = (b = e), and its
\* left-hand side must be a variable reference: with a literal, a binary
\* expression or a call on the left the parse fails with "Invalid
\* assignment target." and yields no AST.
C16_Assignment ==
    out.op = "parse" =>
        \A target \in Targets, value \in AssignedValues :
            input = AssignmentText(target, value) =>
                IF target.name # ""
                THEN /\ out.node = ExpressionStmt(
                                      AssignNode(target.name, value.node))
                     /\ out.cerr = <<>>
                ELSE /\ out.node = NoNode
                     /\ out.cerr = <<"Parse error: Invalid assignment target.">>

\* an assignment to a call was handed to the parser, and refused
C16_Witness ==
    /\ out.op = "parse"
    /\ input = <<"f", "(", "a", ")", " ", "=", " ", "1">>
    /\ out.node = NoNode
    /\ out.cerr = <<"Parse error: Invalid assignment target.">>

\* a = b = 7 was parsed as a = (b = 7)
C16_WitnessChain ==
    /\ out.op = "parse"
    /\ input = <<"a", " ", "=", " ", "b", " ", "=", " ", "7">>
    /\ out.node = ExpressionStmt(
           AssignNode("a", AssignNode("b", LiteralNode(IntV(7)))))

\* ---------------------------------------------------------------------
\* C19
\* ---------------------------------------------------------------------

\* the sequence without its k-th element
Without(seq, k) == SubSeq(seq, 1, k - 1) \o SubSeq(seq, k + 1, Len(seq))

Semicolons == {k \in DOMAIN out.tokens : out.tokens[k].type = "SEMICOLON"}

\* C19: a semicolon never changes the parse: when parseAll has parsed a
\* sequence of statements, it yields the same statements for the tokens
\* without any one of the semicolons that end a statement.
C19_SemicolonsOptional ==
    (out.op = "parseAll" /\ out.thrown = "" /\ out.statements # <<>>) =>
        \A k \in Semicolons :
            Parser_parseAll(Without(out.tokens, k)) = out.statements

\* ---------------------------------------------------------------------
\* C17
\* ---------------------------------------------------------------------

\* the tokens of the script written src
TokensOf(src) == Lexer_scanTokens(SourceText[src]).tokens

\* some statement of the script written src violates the grammar
GrammarViolated(src) == Parser_parseAllCerr(TokensOf(src)) # <<>>

\* C17: parseAll yields no statement at all for a source of which any
\* statement violates the grammar, and execute or run of such a source
\* runs nothing and leaves every environment as it was.
C17_AllOrNothing ==
    [][(/\ ops' = ops + 1
        /\ last'.op \in {"execute", "run"}
        /\ GrammarViolated(last'.src))
       => /\ Parser_parseAll(TokensOf(last'.src)) = <<>>
          /\ log' = <<>>
          /\ interp' = interp]_vars

\* a script whose first statement is a declaration and whose second one
\* violates the grammar was executed: the function is not declared
C17_Witness ==
    /\ last.op = "execute"
    /\ last.src = "function f() { } 1 +"
    /\ GrammarViolated(last.src)
    /\ log = <<>>
    /\ "f" \notin DOMAIN interp.envs[Globals].values

\* ---------------------------------------------------------------------
\* C18
\* ---------------------------------------------------------------------

\* C18: execute and run of a source with a grammar violation fail with an
\* error; they never return normally as they do for an empty source.
C18_ParseErrorSurfaced ==
    (last.op \in {"execute", "run"} /\ GrammarViolated(last.src))
        => last.kind = "error"

\* ---------------------------------------------------------------------
\* C20
\* ---------------------------------------------------------------------

\* the variant the setter of the property accepts
Accepts(name, value) ==
    \/ name = "age" /\ isInt(value)
    \/ name = "name" /\ isString(value)

\* C20: getProperty(name) that follows a setProperty(name, v) with v of the
\* accepted variant returns a value equal to v; setProperty with a value
\* of another variant raises an error and leaves the Person unchanged.
C20_HandleRoundTrip ==
    [][/\ (/\ last.op = "setProperty" /\ Accepts(last.src, last.value)
           /\ last.src \in handle.getters \cap handle.setters
           /\ ops' = ops + 1
           /\ last'.op = "getProperty" /\ last'.src = last.src)
          => (last'.kind = "value" /\ last'.value = last.value)
       /\ (/\ ops' = ops + 1
           /\ last'.op = "setProperty" /\ last'.src \in handle.setters
           /\ ~Accepts(last'.src, last'.value))
          => (last'.kind = "error" /\ person' = person)]_vars

\* getProperty("age") has returned the Int 0 that setProperty("age", Int 0)
\* had stored
C20_Witness ==
    /\ last.op = "getProperty" /\ last.src = "age"
    /\ last.kind = "value" /\ last.value = IntV(0)
    /\ person.age = 0

\* setProperty("age", v) with a String was refused, the Person left as it
\* was
C20_WitnessRefused ==
    /\ last.op = "setProperty" /\ last.src = "age"
    /\ isString(last.value)
    /\ last.kind = "error" /\ last.what = "age must be an integer"
    /\ person = Person("Alice", 25)

\* ---------------------------------------------------------------------
\* C21
\* ---------------------------------------------------------------------

\* the map a call on the handle looks its name up in
MapOf(op) ==
    CASE op = "getProperty" -> handle.getters
      [] op = "setProperty" -> handle.setters
      [] op = "callMethod" -> handle.methods

\* the message of a call on the handle that misses
NotFound(op, name) ==
    IF op = "callMethod" THEN "Method '" \o name \o "' not found"
    ELSE "Property '" \o name \o "' not found"

\* C21: a call on a handle reaches a host callback exactly when its name
\* was registered in the map of that call: getProperty and setProperty of
\* a name absent from the getters (resp. setters) fail with "Property
\* '<name>' not found", callMethod of an unregistered name fails with
\* "Method '<name>' not found", whatever the other two maps hold, and a
\* miss leaves the host object untouched.
C21_Capabilities ==
    [][(ops' = ops + 1
        /\ last'.op \in {"getProperty", "setProperty", "callMethod"})
       => IF last'.src \in MapOf(last'.op)
          THEN last'.what # NotFound(last'.op, last'.src)
          ELSE /\ last'.kind = "error"
               /\ last'.what = NotFound(last'.op, last'.src)
               /\ person' = person]_vars

\* setProperty of a name that has a getter and no setter has missed
C21_Witness ==
    /\ last.op = "setProperty"
    /\ last.src \in handle.getters \ handle.setters
    /\ last.kind = "error"
    /\ last.what = "Property 'name' not found"
    /\ person = Person("Alice", 25)

\* callMethod of a name registered as a property only has missed
C21_WitnessMethod ==
    /\ last.op = "callMethod" /\ last.src = "age"
    /\ "age" \in handle.getters \cap handle.setters
    /\ last.what = "Method 'age' not found"

\* ---------------------------------------------------------------------
\* C22
\* ---------------------------------------------------------------------

\* C22: once the host has defined alice and the handle has its setters,
\* getters and methods, evaluate("alice.age = 26") has called the setter
\* of age (the Person is 26), evaluate("alice.age") returns the age of the
\* Person as an Int, and evaluate("alice.introduce()") returns what the
\* registered method returns.
C22_ScriptsReachHandle ==
    (/\ last.op = "evaluate"
     /\ "alice" \in DOMAIN interp.envs[Globals].values
     /\ Registered(handle) = Len(Registrations))
    => /\ last.src = "alice.age = 26" => person.age = 26
       /\ last.src = "alice.age" =>
             (last.kind = "value" /\ last.value = IntV(person.age))
       /\ last.src = "alice.introduce()" =>
             (last.kind = "value"
              /\ last.value = Method("introduce", person, <<>>).value)

\* ---------------------------------------------------------------------
\* C23
\* ---------------------------------------------------------------------

\* the lines of the kinds the test script is made of: assignments, function
\* declarations (one with an if statement in its body) and calls
ScriptLines == FileLines \ {"quotient = 1 / 0;"}
\* the function a line calls, "" when it calls none
Calls(line) ==
    CASE line = "result = add(2, 3);" -> "function add(x, y) { return x + y; }"
      [] line = "fact5 = factorial(5);" ->
           "function factorial(n) { if (n <= 1) { return 1; } return 2 }"
      [] OTHER -> ""
\* the scripts of those lines that call only functions declared before
Scripts ==
    {lines \in Files :
        \A i \in DOMAIN lines :
            /\ lines[i] \in ScriptLines
            /\ Calls(lines[i]) # "" =>
                  \E j \in 1..(i - 1) : lines[j] = Calls(lines[i])}

\* C23: runFile of a script made of assignments, function declarations,
\* calls and function bodies with if statements parses every statement,
\* evaluates them and returns exit code 0, writing nothing to the error
\* stream.
C23_ScriptRuns ==
    (out.op = "runFile" /\ \E lines \in Scripts : lines # <<>> /\ input = FileText(lines))
        => (out.returned /\ out.code = 0 /\ out.cerr = <<>>)

\* ---------------------------------------------------------------------
\* C24
\* ---------------------------------------------------------------------

\* the event at which the executeBlock activation was entered that is the
\* innermost one open when event k is logged
Opener(k) ==
    CHOOSE i \in Events("enter") :
        /\ i < k /\ Nesting(i) = Nesting(k) - 1
        /\ \A j \in Events("enter") :
              (j < k /\ Nesting(j) = Nesting(k) - 1) => j <= i

\* C24: executeBlock(statements, env) is left, whether by its last
\* statement, by a return signal or by an error, with the cursor it was
\* entered with; each of its statements starts with the cursor at env.
C24_BlockCursor ==
    /\ \A k \in Events("exit") :
          /\ log[k].env = log[Opener(k)].env
          /\ log[k].cursor = log[Opener(k)].previous
    /\ \A k \in Events("stmt") : log[k].env = log[Opener(k)].env

\* an executeBlock was left by a return signal raised in a block nested in
\* it, with a cursor other than its env
C24_Witness ==
    \E k \in Events("exit") :
        /\ log[k].kind = "return" /\ log[k].cursor # log[k].env
        /\ \E j \in Events("exit") :
              j < k /\ Opener(k) < Opener(j) /\ log[j].kind = "return"

\* an executeBlock nested in another was left by an error
C24_WitnessError ==
    \E k \in Events("exit") :
        log[k].kind = "error" /\ log[k].cursor # log[k].env /\ Nesting(k) >= 2

\* an executeBlock was left by its last statement
C24_WitnessNormal ==
    \E k \in Events("exit") :
        log[k].kind = "value" /\ log[k].cursor # log[k].env

\* ---------------------------------------------------------------------
\* C25
\* ---------------------------------------------------------------------

\* frame e defines name when event k of the call with log lg is logged:
\* it did before the call (frames before), or an earlier event of the call
\* bound the name there
DefinesAt(before, lg, k, e, name) ==
    \/ e \in DOMAIN before /\ name \in DOMAIN before[e].values
    \/ \E j \in 1..(k - 1) :
          \/ lg[j].ev \in {"define", "bind"} /\ lg[j].env = e /\ lg[j].name = name
          \/ lg[j].ev = "assign" /\ lg[j].target = e /\ lg[j].name = name

\* the nearest frame, from e outwards along enclosing, that defines name at
\* event k; 0 when none does
RECURSIVE Nearest(_, _, _, _, _, _)
Nearest(before, after, lg, k, e, name) ==
    IF DefinesAt(before, lg, k, e, name) THEN e
    ELSE IF after[e].enclosing # 0
         THEN Nearest(before, after, lg, k, after[e].enclosing, name)
         ELSE 0

AssignScript == "function g() { } function f(n) { n = 2; g = n; return n } f(1)"

\* C25: an assignment to a name that a frame of the chain of the current
\* environment defines writes the nearest such frame, and a call changes
\* no binding but those its assignments and definitions target.  So the
\* assignment to its parameter n in the body of f leaves the global n as
\* the host defined it, and the assignment to g, defined in the global
\* frame only, changes the global g and binds nothing in the frame of f.
C25_AssignNearest ==
    [][(ops' = ops + 1 /\ last'.op \in {"evaluate", "execute", "run"})
       => /\ \A k \in {i \in DOMAIN log' : log'[i].ev = "assign"} :
               \A n \in {Nearest(interp.envs, interp'.envs, log', k,
                                  log'[k].from, log'[k].name)} :
                   n # 0 => (~log'[k].caught /\ log'[k].target = n)
          /\ \A e \in DOMAIN interp.envs :
               \A name \in DOMAIN interp.envs[e].values :
                   interp'.envs[e].values[name] # interp.envs[e].values[name]
                   => \E j \in DOMAIN log' :
                         /\ \/ log'[j].ev = "assign" /\ log'[j].target = e
                            \/ log'[j].ev \in {"define", "bind"} /\ log'[j].env = e
                         /\ log'[j].name = name
          /\ (last'.src = AssignScript /\ last'.op = "execute")
             => \A i \in {j \in DOMAIN log' : log'[j].ev = "bind"} :
                   /\ interp'.envs[log'[i].env].values = [n \in {"n"} |-> IntV(2)]
                   /\ interp'.envs[Globals].values["g"] = IntV(2)
                   /\ "n" \in DOMAIN interp.envs[Globals].values
                      => interp'.envs[Globals].values["n"]
                            = interp.envs[Globals].values["n"]]_vars

\* the script ran with n defined by the host: it assigned to the parameter
\* n and to the global g from the frame of f, and returned 2
C25_Witness ==
    /\ last.op = "execute" /\ last.src = AssignScript
    /\ last.kind = "value" /\ last.value = IntV(2)
    /\ "n" \in DOMAIN GlobalValues /\ GlobalValues["n"] = IntV(7)
    /\ \E i, j \in Events("assign") :
          /\ log[i].name = "n" /\ log[i].target = log[i].from
          /\ log[i].from # Globals
          /\ log[j].name = "g" /\ log[j].target = Globals
          /\ log[j].from = log[i].from

\* ---------------------------------------------------------------------
\* C26
\* ---------------------------------------------------------------------

\* the events of kind that belong to call id
EventsOf(kind, id) == {i \in Events(kind) : log[i].id = id}
\* the events at which name is assigned
Assigns(name) == {i \in Events("assign") : log[i].name = name}

OrderScript == "function f(a, b) { return a } f((p = 1) + (q = 2), r = 3)"
FailScript == "function f(a, b) { } f(y + (x = 1), z = 2)"

\* C26: the left operand of a binary operator is evaluated, effects
\* included, before the right one; a call evaluates its callee, then its
\* arguments from the first to the last, and only then binds parameters;
\* once an operand or argument has raised an error nothing more is
\* evaluated.
C26_EvaluationOrder ==
    /\ \A t \in Events("throw") :
          \A j \in DOMAIN log : j > t => log[j].ev \in {"throw", "exit"}
    /\ \A c \in Events("callee") :
          /\ \A a \in EventsOf("arg", log[c].id) :
                /\ c < a
                /\ log[a].index > 1 =>
                      \E b \in EventsOf("arg", log[c].id) :
                          b < a /\ log[b].index = log[a].index - 1
          /\ \A d \in EventsOf("argsdone", log[c].id) :
                /\ log[d].got = log[c].nargs
                /\ \A m \in 1..log[c].nargs :
                      \E a \in EventsOf("arg", log[c].id) :
                          a < d /\ log[a].index = m
          /\ \A b \in EventsOf("bind", log[c].id) \cup EventsOf("frame", log[c].id) :
                \E d \in EventsOf("argsdone", log[c].id) : d < b
    /\ (last.op = "execute" /\ last.src = OrderScript)
       => \E p \in Assigns("p"), q \in Assigns("q"), r \in Assigns("r"),
             o \in Events("binary"), d \in Events("argsdone"),
             b \in Events("bind") :
               p < q /\ q < o /\ o < r /\ r < d /\ d < b
    /\ (last.op = "execute" /\ last.src = FailScript)
       => /\ last.kind = "error"
          /\ Events("assign") = {} /\ Events("binary") = {}
          /\ Events("argsdone") = {} /\ Events("bind") = {}
          /\ \A a \in Events("arg") : log[a].index = 1

\* both operands of + and the second argument were evaluated, with their
\* assignments, and f returned the sum
C26_Witness ==
    /\ last.op = "execute" /\ last.src = OrderScript
    /\ last.kind = "value" /\ last.value = IntV(3)
    /\ \E o \in Events("binary") : log[o].left = IntV(1) /\ log[o].right = IntV(2)

\* the left operand of the first argument raised an error
C26_WitnessError ==
    /\ last.op = "execute" /\ last.src = FailScript
    /\ last.what = "Execution error: Undefined variable 'y'."
    /\ \E k \in Events("lookup") : log[k].name = "y" /\ log[k].found = 0

\* ---------------------------------------------------------------------
\* C27
\* ---------------------------------------------------------------------

\* the events of kind in the log lg
In(lg, kind) == {i \in DOMAIN lg : lg[i].ev = kind}
\* the events of lg at which a block statement, not a function body, is
\* entered
BlockEnters(lg) ==
    {i \in In(lg, "enter") : \A f \in In(lg, "frame") : lg[f].env # lg[i].env}
\* the events of lg that bind name in frame e
BindsIn(lg, e, name) ==
    {j \in DOMAIN lg :
        /\ \/ lg[j].ev \in {"define", "bind"} /\ lg[j].env = e
           \/ lg[j].ev = "assign" /\ lg[j].target = e
        /\ lg[j].name = name}

BlockScript == "{ function g() { return g } g() }"

\* C27: a block statement runs its statements, in order, in one frame
\* created for it as a child of the current environment, and yields the
\* value of the last one, Null when it has none; a function declared in
\* the block is bound in that frame and in no frame that existed before,
\* so after the block the enclosing scope resolves the name only if it
\* did before.
C27_BlockScope ==
    [][(ops' = ops + 1 /\ last'.op \in {"evaluate", "execute", "run"})
       => /\ \A i \in BlockEnters(log') :
               /\ log'[i].env \notin DOMAIN interp.envs
               /\ interp'.envs[log'[i].env].enclosing = log'[i].previous
               /\ \A j \in In(log', "enter") : j # i => log'[j].env # log'[i].env
               /\ \A k \in In(log', "stmt") :
                     (Opener(k)' = i) => log'[k].env = log'[i].env
          /\ \A d \in In(log', "define") :
               /\ log'[d].name \in DOMAIN interp'.envs[log'[d].env].values
               /\ \A e \in DOMAIN interp.envs :
                     (/\ log'[d].name \notin DOMAIN interp.envs[e].values
                      /\ log'[d].name \in DOMAIN interp'.envs[e].values)
                     => BindsIn(log', e, log'[d].name) # {}
          /\ last'.src = "{ }" => (last'.kind = "value" /\ last'.value = NullV)
          /\ last'.src = "{ x = 5 }" =>
                (last'.kind = "value" /\ last'.value = IntV(5))
          /\ last'.src = BlockScript =>
                /\ last'.kind = "value" /\ isFunction(last'.value)
                /\ \E i \in BlockEnters(log'), d \in In(log', "define") :
                      /\ log'[d].env = log'[i].env /\ log'[d].name = "g"
                      /\ \E k1, k2 \in In(log', "stmt") :
                            /\ k1 < k2
                            /\ log'[k1].env = log'[i].env
                            /\ log'[k1].node = "Function"
                            /\ log'[k2].env = log'[i].env
                            /\ log'[k2].node = "ExpressionStmt"
                            /\ \A k \in In(log', "stmt") :
                                  log'[k].env = log'[i].env => k \in {k1, k2}
                /\ ("g" \in DOMAIN interp'.envs[Globals].values)
                     <=> ("g" \in DOMAIN interp.envs[Globals].values)]_vars

\* the block that declares g and calls it was run with no global g: its
\* value is the function, and the global frame still has no g
C27_Witness ==
    /\ last.op = "execute" /\ last.src = BlockScript
    /\ last.kind = "value" /\ isFunction(last.value)
    /\ "g" \notin DOMAIN GlobalValues
    /\ \E d \in Events("define") :
          /\ log[d].name = "g" /\ log[d].env # Globals
          /\ "g" \in DOMAIN interp.envs[log[d].env].values

\* the empty block was evaluated
C27_WitnessEmpty ==
    /\ last.src = "{ }" /\ last.kind = "value" /\ last.value = NullV
    /\ \E i \in Events("enter") : log[i].env # Globals

\* ---------------------------------------------------------------------
\* C28
\* ---------------------------------------------------------------------

\* C28: a call of evaluate or execute ends by returning a value or by
\* failing with a runtime error that carries a message; a return statement
\* run outside any function call does not leave the call as a return
\* signal.
C28_ValueOrError ==
    last.op \in {"evaluate", "execute"} =>
        \/ last.kind = "value"
        \/ last.kind = "error" /\ last.what # ""
        \/ last.kind = "crash"

\* ---------------------------------------------------------------------
\* C29
\* ---------------------------------------------------------------------

\* C29: evaluate(source) returns a value only when the statement it parsed
\* and evaluated ends where the tokens of the source end; tokens that
\* follow the first statement are evaluated or make the call fail.
C29_WholeInput ==
    (last.op = "evaluate" /\ last.kind = "value") =>
        \A tokens \in {TokensOf(last.src)} :
            \A s \in {Parser_statement(tokens, 0)} :
                s.ok /\ Parser_isAtEnd(tokens, s.cur)

\* ---------------------------------------------------------------------
\* C30
\* ---------------------------------------------------------------------

\* the frames reached from e along enclosing
RECURSIVE ChainIn(_, _)
ChainIn(envs, e) ==
    IF e = 0 THEN {} ELSE {e} \cup ChainIn(envs, envs[e].enclosing)

\* the function called by the call whose frame event is f in lg
FunctionOf(lg, f) ==
    lg[CHOOSE c \in In(lg, "callee") : lg[c].id = lg[f].id].value.fid

RecursionScript == "function k(g) { return 5 } function f(g) { g(k); return g } f(f)"
ClosureScript ==
    "function m(n) { function a(x) { return x + n } return a } function u(p, q) { return p(1) + q(1) } u(m(5), m(10))"

\* C30: each call binds its parameters in a frame made for it: the frame
\* did not exist before, no other call uses it, and it is out of the reach
\* of the other calls of the same function, those in progress included;
\* names are read and written only along the chain of the current
\* environment; a frame that existed before the call gains a parameter
\* name only through a declaration or assignment of its own.  Two closures
\* made by two calls of one function keep each its own binding.
C30_FreshFrames ==
    [][(ops' = ops + 1 /\ last'.op \in {"evaluate", "execute", "run"})
       => /\ \A f \in In(log', "frame") :
               /\ log'[f].env \notin DOMAIN interp.envs
               /\ \A g \in In(log', "frame") :
                     g # f =>
                       /\ log'[g].env # log'[f].env
                       /\ FunctionOf(log', g) = FunctionOf(log', f) =>
                             log'[f].env \notin ChainIn(interp'.envs, log'[g].env)
          /\ \A b \in In(log', "bind") :
               /\ \E f \in In(log', "frame") :
                     log'[f].id = log'[b].id /\ log'[f].env = log'[b].env
               /\ \A e \in DOMAIN interp.envs :
                     (/\ log'[b].name \notin DOMAIN interp.envs[e].values
                      /\ log'[b].name \in DOMAIN interp'.envs[e].values)
                     => \E j \in BindsIn(log', e, log'[b].name) :
                           log'[j].ev # "bind"
          /\ \A k \in In(log', "lookup") :
               log'[k].found # 0 =>
                   log'[k].found \in ChainIn(interp'.envs, log'[k].from)
          /\ \A k \in In(log', "assign") :
               ~log'[k].caught =>
                   log'[k].target \in ChainIn(interp'.envs, log'[k].from)
          /\ (last'.src = RecursionScript /\ last'.op = "execute") =>
                /\ last'.kind = "value"
                /\ last'.value = interp'.envs[Globals].values["f"]
                /\ \E f1, f2 \in In(log', "frame") :
                      /\ f1 < f2
                      /\ FunctionOf(log', f1) = FunctionOf(log', f2)
                      /\ \A r \in In(log', "result") :
                            log'[r].id = log'[f1].id => f2 < r
                      /\ interp'.envs[log'[f1].env].values
                            = [n \in {"g"} |-> interp'.envs[Globals].values["f"]]
                      /\ interp'.envs[log'[f2].env].values
                            = [n \in {"g"} |-> interp'.envs[Globals].values["k"]]
          /\ (last'.src = ClosureScript /\ last'.op = "execute") =>
                /\ last'.kind = "value" /\ last'.value = IntV(17)
                /\ \E d1, d2 \in In(log', "define") :
                      /\ log'[d1].name = "a" /\ log'[d2].name = "a"
                      /\ log'[d1].env # log'[d2].env
                      /\ interp'.funs[log'[d1].value.fid].closure = log'[d1].env
                      /\ interp'.funs[log'[d2].value.fid].closure = log'[d2].env
                      /\ interp'.envs[log'[d1].env].values["n"] = IntV(5)
                      /\ interp'.envs[log'[d2].env].values["n"] = IntV(10)]_vars

\* f called itself while its first call was in progress; the first call
\* then returned its own parameter, the function f
C30_Witness ==
    /\ last.op = "execute" /\ last.src = RecursionScript
    /\ last.kind = "value" /\ isFunction(last.value)
    /\ \E f1, f2 \in Events("frame") :
          /\ f1 < f2
          /\ log[CalleeOf(log[f1].id)].value = log[CalleeOf(log[f2].id)].value
          /\ log[f1].env # log[f2].env
          /\ \E r \in Events("result") : log[r].id = log[f1].id /\ f2 < r
    /\ "g" \notin DOMAIN GlobalValues

\* two closures made by two calls of m were called one after the other
C30_WitnessClosures ==
    /\ last.op = "execute" /\ last.src = ClosureScript
    /\ last.kind = "value" /\ last.value = IntV(17)
    /\ "n" \in DOMAIN GlobalValues /\ GlobalValues["n"] = IntV(7)


====
